---- MODULE Spec2Model ----
(***************************************************************************)
(* chowbea-axios: the operation extractor, the operation renderer, the     *)
(* spec validator and the validate command, the spec differ, the naming    *)
(* helpers, the generated client, the fetcher with the fetch command and   *)
(* generate() with its file helpers, modelled from src/lib/generator.ts,   *)
(* src/lib/config.ts, src/commands/validate.ts and the diff command;       *)
(* further generateClientFiles, the watch command with its signal          *)
(* handler, MapFormDataTypes, resolveSpecSource and the source each        *)
(* command reads, and successive fetch runs over one cache.                *)
(*                                                                         *)
(* A JavaScript string whose characters matter (a path template, a path    *)
(* parameter name) is a sequence of one-character strings; a string that   *)
(* is only compared or tested for emptiness is a TLA+ string.              *)
(***************************************************************************)
EXTENDS Integers, Sequences, FiniteSets, TLC

VARIABLES
    spec,        \* the JSON-decoded spec document handed to the extractor / validator
    parsePc,     \* "idle" | "ready" | "done": position of parseOperations
    operations,  \* outcome of parseOperations: [error, value]
    validatePc,  \* "idle" | "ready" | "done": position of validateSpec
    issues,      \* ValidationIssue[] returned by validateSpec
    operation,   \* the OperationMetadata handed to generateOperationFunction
    renderPc,    \* "idle" | "ready" | "done"
    rendered,    \* the rendered operation function
    str,         \* input of toCamelCase
    camelPc,     \* "idle" | "ready" | "once" | "twice"
    camelOnce,   \* toCamelCase(str)
    camelTwice,  \* toCamelCase(toCamelCase(str))
    diffIn,      \* inputs of Diff.run: current spec, new spec, flags, cache
    diffPc,      \* "idle" | "ready" | "identical" | "failed" | "done"
    diffOut,     \* currentOperations, newOperations, added, removed, modified
    pathIn,      \* literals and placeholder names a path template is built from
    pathPc,      \* "idle" | "ready" | "done": position of extractPathParams
    pathOut,     \* string[] returned by extractPathParams
    cmdIn,       \* inputs of Validate.run: spec file present, its document, --strict
    cmdPc,       \* "idle" | "ready" | "done"
    cmdOut,      \* issues collected by Validate.run and its exit status
    callIn,      \* one client call: method, url, pathParams, outcome of the request
    callPc,      \* "idle" | "ready" | "done"
    callOut,     \* what the call did: returned a Result or threw
    fetchIn,     \* inputs of Fetch.run: flags and the outcome of each fetch attempt
    fetchPc,     \* position inside Fetch.run / fetchOpenApiSpec
    attempt,     \* loop counter of fetchOpenApiSpec
    existingCache, \* the cache metadata fetchOpenApiSpec loaded at its start
    fetchLog,    \* fetch attempts and delays so far, in order
    fetchResult, \* FetchResult returned by fetchOpenApiSpec
    disk,        \* spec file, cache metadata file and generated files
    genIn,       \* inputs of generate(): flags and new contents
    genPc,       \* position inside generate()
    fs,          \* the files generate() touches
    backups,     \* BackupPaths returned by createBackup
    filesIn,     \* inputs of generateClientFiles: force and the client files found
    filesPc,     \* position inside generateClientFiles
    clientFs,    \* api.helpers.ts, api.instance.ts, api.error.ts, api.client.ts
    filesOut,    \* which files generateClientFiles reports as generated
    filesLog,    \* the files atomicWrite has written in this call
    filesRuns,   \* calls of generateClientFiles so far
    watchPc,     \* position inside Watch.run
    isShuttingDown, \* Watch.isShuttingDown
    cycleCounter, \* Watch.cycleCounter
    signals,     \* SIGINT / SIGTERM received so far
    exitTimer,   \* the setTimeout of the shutdown handler is pending
    pending,     \* the buffer of a changed spec whose cycle failed and was not regenerated since
    formIn,      \* one field of a multipart request-body schema: property name and declared type
    formPc,      \* "idle" | "ready" | "done"
    formOut,     \* the type MapFormDataTypes gives the field
    srcIn,       \* a command, its --spec-file and --endpoint flags, the configuration
    srcPc,       \* "idle" | "ready" | "done"
    srcOut,      \* the source the command takes the spec from
    runs,        \* runs of the fetch command so far
    eqIn,        \* the spec document handed to both extractors
    eqPc,        \* "idle" | "ready" | "done"
    eqOut,       \* the outcome of Diff.extractOperations and of parseOperations
    keyIn,       \* a path template and the values given for its parameters
    keyPc,       \* "idle" | "ready" | "done"
    keyOut       \* the record passed as pathParams and what interpolatePath made of it

vars == <<spec, parsePc, operations, validatePc, issues,
          operation, renderPc, rendered,
          str, camelPc, camelOnce, camelTwice,
          diffIn, diffPc, diffOut,
          pathIn, pathPc, pathOut,
          cmdIn, cmdPc, cmdOut,
          callIn, callPc, callOut,
          fetchIn, fetchPc, attempt, existingCache, fetchLog, fetchResult, disk,
          genIn, genPc, fs, backups,
          filesIn, filesPc, clientFs, filesOut, filesLog, filesRuns,
          watchPc, isShuttingDown, cycleCounter, signals, exitTimer, pending,
          formIn, formPc, formOut,
          srcIn, srcPc, srcOut,
          runs,
          eqIn, eqPc, eqOut,
          keyIn, keyPc, keyOut>>

extractVars == <<spec, parsePc, operations, validatePc, issues>>
renderVars == <<operation, renderPc, rendered>>
camelVars == <<str, camelPc, camelOnce, camelTwice>>
diffVars == <<diffIn, diffPc, diffOut>>
pathVars == <<pathIn, pathPc, pathOut>>
cmdVars == <<cmdIn, cmdPc, cmdOut>>
callVars == <<callIn, callPc, callOut>>
fetchVars == <<fetchIn, fetchPc, attempt, existingCache, fetchLog, fetchResult, disk>>
genVars == <<genIn, genPc, fs, backups>>
filesVars == <<filesIn, filesPc, clientFs, filesOut, filesLog, filesRuns>>
watchVars == <<watchPc, isShuttingDown, cycleCounter, signals, exitTimer, pending>>
formVars == <<formIn, formPc, formOut>>
srcVars == <<srcIn, srcPc, srcOut>>
runVars == <<runs>>
eqVars == <<eqIn, eqPc, eqOut>>
keyVars == <<keyIn, keyPc, keyOut>>
coreVars == <<extractVars, renderVars, camelVars, diffVars>>
midVars == <<pathVars, cmdVars, callVars, fetchVars, genVars>>
newVars == <<filesVars, watchVars, formVars, srcVars, runVars, eqVars, keyVars>>
lateVars == <<midVars, newVars>>
butFilesVars == <<watchVars, formVars, srcVars, runVars, eqVars, keyVars>>
butWatchVars == <<filesVars, formVars, srcVars, runVars, eqVars, keyVars>>
butFormVars == <<filesVars, watchVars, srcVars, runVars, eqVars, keyVars>>
butSrcVars == <<filesVars, watchVars, formVars, runVars, eqVars, keyVars>>
butRunVars == <<filesVars, watchVars, formVars, srcVars, eqVars, keyVars>>
butEqVars == <<filesVars, watchVars, formVars, srcVars, runVars, keyVars>>
butKeyVars == <<filesVars, watchVars, formVars, srcVars, runVars, eqVars>>

(***************************************************************************)
(* Bounds of the explored inputs.                                          *)
(***************************************************************************)
MaxPaths == 2
MaxOps == 2

(***************************************************************************)
(* JSON values as JavaScript sees them after JSON.parse.                   *)
(* An object is its entries in insertion order: <<key, value>> pairs.      *)
(***************************************************************************)
Undefined == [t |-> "undefined"]
Null == [t |-> "null"]
Str(s) == [t |-> "string", v |-> s]
Num(n) == [t |-> "number", v |-> n]
Arr(items) == [t |-> "array", v |-> items]
Obj(entries) == [t |-> "object", v |-> entries]

\* typeof x
TypeOf(x) ==
    IF x.t \in {"null", "array", "object"} THEN "object" ELSE x.t

\* !!x
Truthy(x) ==
    CASE x.t \in {"undefined", "null"} -> FALSE
      [] x.t = "string" -> x.v # ""
      [] x.t = "number" -> x.v # 0
      [] OTHER -> TRUE

\* x[key] for a property name key; reading a property of null throws
\* (callers test IsNullish first).  A string, number or array has no own
\* property named like an operation field or an HTTP method.
IsNullish(x) == x.t \in {"undefined", "null"}

Get(x, key) ==
    IF x.t = "object" /\ \E i \in 1..Len(x.v) : x.v[i][1] = key
    THEN x.v[CHOOSE i \in 1..Len(x.v) :
                 /\ x.v[i][1] = key
                 /\ \A j \in (i+1)..Len(x.v) : x.v[j][1] # key][2]
    ELSE Undefined

\* Object.entries(x): the entries of an object in key order; a number or
\* boolean has none.
Entries(x) == IF x.t = "object" THEN x.v ELSE <<>>

(***************************************************************************)
(* extractPathParams (generator.ts 57-60): every match of /\{([^}]+)\}/g,  *)
(* left to right.  A match starts at a "{" that is followed by at least    *)
(* one character other than "}" and then by a "}"; the capture is the text *)
(* between that "{" and the first "}" after it.                            *)
(***************************************************************************)
\* The closing brace of a greedy match /\{(.+)\}/: the last "}" of the text.
FirstClose_Greedy(s, from) ==
    IF \E k \in from..Len(s) : s[k] = "}"
    THEN CHOOSE k \in from..Len(s) :
             s[k] = "}" /\ \A j \in (k+1)..Len(s) : s[j] # "}"
    ELSE 0

FirstClose(s, from) ==
    IF \E k \in from..Len(s) : s[k] = "}"
    THEN CHOOSE k \in from..Len(s) :
             s[k] = "}" /\ \A j \in from..(k-1) : s[j] # "}"
    ELSE 0

RECURSIVE ScanPathParams(_, _)
ScanPathParams(s, i) ==
    IF i > Len(s) THEN <<>>
    ELSE IF s[i] = "{" /\ i + 1 <= Len(s) /\ s[i+1] # "}" /\ FirstClose(s, i+1) # 0
         THEN <<SubSeq(s, i+1, FirstClose(s, i+1) - 1)>>
                  \o ScanPathParams(s, FirstClose(s, i+1) + 1)
         ELSE ScanPathParams(s, i+1)

extractPathParams(pathTemplate) == ScanPathParams(pathTemplate, 1)

(***************************************************************************)
(* parseOperations (generator.ts 182-244).                                 *)
(***************************************************************************)
HttpMethods == <<"get", "post", "put", "delete", "patch">>

\* parameters?.some((param) => param.in === "query") ?? false
\* "throw" stands for the TypeError of calling .some on a non-array or of
\* reading .in of a null entry; .some stops at the first entry that matches.
RECURSIVE SomeInQuery(_, _)
SomeInQuery(items, i) ==
    IF i > Len(items) THEN "false"
    ELSE IF IsNullish(items[i]) THEN "throw"
    ELSE IF Get(items[i], "in") = Str("query") THEN "true"
    ELSE SomeInQuery(items, i+1)

HasQueryParams(parameters) ==
    IF IsNullish(parameters) THEN "false"
    ELSE IF parameters.t # "array" THEN "throw"
    ELSE SomeInQuery(parameters.v, 1)

\* (operation.summary as string) ?? ""
OrEmpty(x) == IF IsNullish(x) THEN Str("") ELSE x

\* The body of the inner loop for one (path, method): "throw", "skip" or
\* the descriptor that is pushed.
ParseOne(pathTemplate, pathItem, method) ==
    IF IsNullish(pathItem) THEN [kind |-> "throw"]
    ELSE LET op == Get(pathItem, method)
             id == Get(op, "operationId")
         IN IF ~Truthy(op) THEN [kind |-> "skip"]
            ELSE IF ~Truthy(id) \/ TypeOf(id) # "string" THEN [kind |-> "skip"]
            ELSE IF HasQueryParams(Get(op, "parameters")) = "throw"
                 THEN [kind |-> "throw"]
            ELSE [kind |-> "push",
                  op |-> [operationId |-> id.v,
                          method |-> method,
                          path |-> pathTemplate,
                          pathParams |-> extractPathParams(pathTemplate),
                          hasRequestBody |-> Truthy(Get(op, "requestBody")),
                          hasQueryParams |->
                              (HasQueryParams(Get(op, "parameters")) = "true"),
                          summary |-> OrEmpty(Get(op, "summary")),
                          description |-> OrEmpty(Get(op, "description"))]]

\* The two nested loops, from entry pi of paths and method mi on, with the
\* descriptors pushed so far.
RECURSIVE ParseLoop(_, _, _, _)
ParseLoop(entries, pi, mi, acc) ==
    IF pi > Len(entries) THEN [error |-> "none", value |-> acc]
    ELSE IF mi > Len(HttpMethods) THEN ParseLoop(entries, pi+1, 1, acc)
    ELSE LET r == ParseOne(entries[pi][1], entries[pi][2], HttpMethods[mi])
         IN CASE r.kind = "throw" -> [error |-> "TypeError", value |-> <<>>]
              [] r.kind = "skip" -> ParseLoop(entries, pi, mi+1, acc)
              [] OTHER -> ParseLoop(entries, pi, mi+1, Append(acc, r.op))

parseOperations(s) ==
    IF TypeOf(s) # "object" \/ s.t = "null" THEN [error |-> "none", value |-> <<>>]
    ELSE IF ~Truthy(Get(s, "paths")) THEN [error |-> "none", value |-> <<>>]
    ELSE ParseLoop(Entries(Get(s, "paths")), 1, 1, <<>>)

(***************************************************************************)
(* validateSpec (validate.ts 168-265).                                     *)
(***************************************************************************)
Issue(severity, path, message) ==
    [severity |-> severity, path |-> path, message |-> message]

\* `/paths${pathKey}` and `/paths${pathKey}/${method}`: the pieces of the
\* template in order ("" where the method part is absent).
PathPointer(pathKey) == <<"/paths", pathKey, "">>
OperationPointer(pathKey, method) == <<"/paths", pathKey, method>>
RootPointer(p) == <<p, <<>>, "">>

ValidateOperation(pathKey, pathObj, method) ==
    LET op == Get(pathObj, method)
    IN IF ~Truthy(op) THEN <<>>
       ELSE (IF ~Truthy(Get(op, "operationId"))
             THEN <<Issue("warning", OperationPointer(pathKey, method),
                          "Missing operationId - operation will be skipped during generation")>>
             ELSE <<>>)
            \o
            (IF ~Truthy(Get(op, "responses"))
             THEN <<Issue("warning", OperationPointer(pathKey, method),
                          "Missing responses definition")>>
             ELSE <<>>)

\* The scan that gives up at the first path item that is not an object.
RECURSIVE ValidateLoop_StopAtMalformed(_, _, _)
ValidateLoop_StopAtMalformed(entries, pi, mi) ==
    IF pi > Len(entries) THEN <<>>
    ELSE LET pathKey == entries[pi][1]
             pathItem == entries[pi][2]
         IN IF TypeOf(pathItem) # "object" \/ pathItem.t = "null"
            THEN <<Issue("error", PathPointer(pathKey), "Path item must be an object")>>
            ELSE IF mi > Len(HttpMethods) THEN ValidateLoop_StopAtMalformed(entries, pi+1, 1)
            ELSE ValidateOperation(pathKey, pathItem, HttpMethods[mi])
                     \o ValidateLoop_StopAtMalformed(entries, pi, mi+1)

RECURSIVE ValidateLoop(_, _, _)
ValidateLoop(entries, pi, mi) ==
    IF pi > Len(entries) THEN <<>>
    ELSE LET pathKey == entries[pi][1]
             pathItem == entries[pi][2]
         IN IF TypeOf(pathItem) # "object" \/ pathItem.t = "null"
            THEN <<Issue("error", PathPointer(pathKey), "Path item must be an object")>>
                     \o ValidateLoop(entries, pi+1, 1)
            ELSE IF mi > Len(HttpMethods) THEN ValidateLoop(entries, pi+1, 1)
            ELSE ValidateOperation(pathKey, pathItem, HttpMethods[mi])
                     \o ValidateLoop(entries, pi, mi+1)

validateSpec(s) ==
    IF TypeOf(s) # "object" \/ s.t = "null"
    THEN <<Issue("error", RootPointer("/"), "Spec must be a valid JSON object")>>
    ELSE
        (IF ~(Truthy(Get(s, "openapi")) \/ Truthy(Get(s, "swagger")))
         THEN <<Issue("error", RootPointer("/"), "Missing 'openapi' or 'swagger' version field")>>
         ELSE <<>>)
        \o
        (IF ~Truthy(Get(s, "info"))
         THEN <<Issue("error", RootPointer("/info"), "Missing required 'info' object")>>
         ELSE <<>>)
        \o
        (IF Truthy(Get(s, "paths"))
         THEN ValidateLoop(Entries(Get(s, "paths")), 1, 1)
         ELSE <<Issue("warning", RootPointer("/paths"), "No paths defined in spec")>>)
        \o
        (IF Truthy(Get(s, "components")) /\ ~Truthy(Get(Get(s, "components"), "schemas"))
         THEN <<Issue("warning", RootPointer("/components"), "No schemas defined in components")>>
         ELSE <<>>)

(***************************************************************************)
(* The spec documents explored by the extractor and the validator.         *)
(***************************************************************************)
PathA == <<"/", "a">>
PathB == <<"/", "b", "/", "{", "i", "d", "}">>
PathKeys == {PathA, PathB}
MethodKeys == {"get", "post", "put", "delete", "patch", "head"}

\* An object literal: the fields whose value is not undefined, in order.
Fields(entries) == SelectSeq(entries, LAMBDA e : e[2].t # "undefined")

MkOperation(id, requestBody, parameters, summary, responses) ==
    Obj(Fields(<<<<"operationId", id>>, <<"requestBody", requestBody>>,
                 <<"parameters", parameters>>, <<"summary", summary>>,
                 <<"responses", responses>>>>))

QueryParam == Obj(<<<<"in", Str("query")>>>>)
EmptyObj == Obj(<<>>)

OperationIdValues == {Undefined, Str(""), Str("opA"), Num(5)}
ParametersValues == {Str("x"), Arr(<<Null>>)}

OperationValues ==
    {Null}
    \cup {MkOperation(id, Undefined, Undefined, Undefined, Undefined) :
              id \in OperationIdValues}
    \cup {MkOperation(Str("opA"), Undefined, p, Undefined, Undefined) :
              p \in ParametersValues}
    \cup {MkOperation(Str("opB"), EmptyObj, Arr(<<Str("x"), QueryParam, Null>>),
                      Str("s"), EmptyObj)}

\* A path item is an object or one of these malformed values.
ItemKinds == {"object", "null", "string"}

\* The keys of a path item in the order the document lists them
\* (alphabetical here, which is not the order of HttpMethods).
MethodKeyOrder == <<"delete", "get", "head", "patch", "post", "put">>

RECURSIVE SumCard(_, _)
SumCard(ms, n) == IF n = 0 THEN 0 ELSE Cardinality(ms[n]) + SumCard(ms, n - 1)

\* The path item number i of a document: kinds[i] tells whether it is an
\* object, ms[i] are the methods it defines and ops[<<i, m>>] their values.
MkPathItem(i, kinds, ms, ops) ==
    CASE kinds[i] = "null" -> Null
      [] kinds[i] = "string" -> Str("x")
      [] OTHER ->
          LET present == SelectSeq(MethodKeyOrder, LAMBDA m : m \in ms[i])
          IN Obj([j \in 1..Len(present) |-> <<present[j], ops[<<i, present[j]>>]>>])

MkPaths(keys, kinds, ms, ops) ==
    Obj([i \in 1..Len(keys) |-> <<keys[i], MkPathItem(i, kinds, ms, ops)>>])

\* The sequences of at most MaxPaths distinct path keys.
PathKeySeqs ==
    UNION {{ks \in [1..n -> PathKeys] : \A i, j \in 1..n : i # j => ks[i] # ks[j]} :
           n \in 0..MaxPaths}

MkSpec(openapi, info, paths, components) ==
    Obj(Fields(<<<<"openapi", openapi>>, <<"info", info>>,
                 <<"paths", paths>>, <<"components", components>>>>))

\* Documents that are not objects, that have no paths, or whose root fields vary.
RootSpecValues ==
    {Null, Str("x"), Num(1)}
    \cup {MkSpec(Str("3.0.0"), EmptyObj, p, Undefined) : p \in {Undefined, Null}}
    \cup {MkSpec(o, i, Obj(<<<<PathA, Obj(<<<<"get",
                 MkOperation(Str("opA"), Undefined, Undefined, Undefined, r)>>>>)>>>>), c) :
              o \in {Undefined, Str("3.0.0")}, i \in {Undefined, EmptyObj},
              r \in {Undefined, EmptyObj},
              c \in {Undefined, EmptyObj, Obj(<<<<"schemas", EmptyObj>>>>)}}

\* s is one of the explored documents: a root variant, or a well-formed
\* root over at most MaxPaths path items holding at most MaxOps operations.
IsSpecValue(s) ==
    \/ s \in RootSpecValues
    \/ \E keys \in PathKeySeqs :
       \E ms \in [1..Len(keys) -> SUBSET MethodKeys] :
           /\ SumCard(ms, Len(keys)) <= MaxOps
           /\ \E kinds \in [1..Len(keys) -> ItemKinds] :
                 /\ \A i \in 1..Len(keys) : ms[i] # {} => kinds[i] = "object"
                 /\ \E ops \in [{im \in (1..Len(keys)) \X MethodKeys : im[2] \in ms[im[1]]}
                                -> OperationValues] :
                        s = MkSpec(Str("3.0.0"), EmptyObj, MkPaths(keys, kinds, ms, ops), Undefined)

(***************************************************************************)
(* Idle values of the variables a specification does not use.              *)
(***************************************************************************)
NoOutcome == [error |-> "none", value |-> <<>>]

ExtractIdle ==
    /\ spec = Null
    /\ parsePc = "idle"
    /\ operations = NoOutcome
    /\ validatePc = "idle"
    /\ issues = <<>>

RenderIdle ==
    /\ operation = Null
    /\ renderPc = "idle"
    /\ rendered = Null

CamelIdle ==
    /\ str = <<>>
    /\ camelPc = "idle"
    /\ camelOnce = <<>>
    /\ camelTwice = <<>>

DiffIdle ==
    /\ diffIn = Null
    /\ diffPc = "idle"
    /\ diffOut = Null

PathIdle ==
    /\ pathIn = Null
    /\ pathPc = "idle"
    /\ pathOut = <<>>

CmdIdle ==
    /\ cmdIn = Null
    /\ cmdPc = "idle"
    /\ cmdOut = Null

CallIdle ==
    /\ callIn = Null
    /\ callPc = "idle"
    /\ callOut = Null

FetchIdle ==
    /\ fetchIn = Null
    /\ fetchPc = "idle"
    /\ attempt = 0
    /\ existingCache = Null
    /\ fetchLog = <<>>
    /\ fetchResult = Null
    /\ disk = Null

GenIdle ==
    /\ genIn = Null
    /\ genPc = "idle"
    /\ fs = Null
    /\ backups = Null

FilesIdle ==
    /\ filesIn = Null
    /\ filesPc = "idle"
    /\ clientFs = Null
    /\ filesOut = Null
    /\ filesLog = {}
    /\ filesRuns = 0

WatchIdle ==
    /\ watchPc = "idle"
    /\ isShuttingDown = FALSE
    /\ cycleCounter = 0
    /\ signals = 0
    /\ exitTimer = FALSE
    /\ pending = "none"

FormIdle ==
    /\ formIn = Null
    /\ formPc = "idle"
    /\ formOut = ""

SrcIdle ==
    /\ srcIn = Null
    /\ srcPc = "idle"
    /\ srcOut = Null

RunIdle ==
    /\ runs = 0

EqIdle ==
    /\ eqIn = Null
    /\ eqPc = "idle"
    /\ eqOut = Null

KeyIdle ==
    /\ keyIn = Null
    /\ keyPc = "idle"
    /\ keyOut = Null

CoreIdle == ExtractIdle /\ RenderIdle /\ CamelIdle /\ DiffIdle

MidIdle == PathIdle /\ CmdIdle /\ CallIdle /\ FetchIdle /\ GenIdle

NewIdle == FilesIdle /\ WatchIdle /\ FormIdle /\ SrcIdle /\ RunIdle /\ EqIdle /\ KeyIdle
ButFilesIdle == WatchIdle /\ FormIdle /\ SrcIdle /\ RunIdle /\ EqIdle /\ KeyIdle
ButWatchIdle == FilesIdle /\ FormIdle /\ SrcIdle /\ RunIdle /\ EqIdle /\ KeyIdle
ButFormIdle == FilesIdle /\ WatchIdle /\ SrcIdle /\ RunIdle /\ EqIdle /\ KeyIdle
ButSrcIdle == FilesIdle /\ WatchIdle /\ FormIdle /\ RunIdle /\ EqIdle /\ KeyIdle
ButRunIdle == FilesIdle /\ WatchIdle /\ FormIdle /\ SrcIdle /\ EqIdle /\ KeyIdle
ButEqIdle == FilesIdle /\ WatchIdle /\ FormIdle /\ SrcIdle /\ RunIdle /\ KeyIdle
ButKeyIdle == FilesIdle /\ WatchIdle /\ FormIdle /\ SrcIdle /\ RunIdle /\ EqIdle

LateIdle == MidIdle /\ NewIdle

(***************************************************************************)
(* Spec: the extractor and the validator applied to one spec document.     *)
(***************************************************************************)
Init ==
    /\ IsSpecValue(spec)
    /\ parsePc = "ready"
    /\ operations = NoOutcome
    /\ validatePc = "ready"
    /\ issues = <<>>
    /\ RenderIdle /\ CamelIdle /\ DiffIdle /\ LateIdle

ParseOperations ==
    /\ parsePc = "ready"
    /\ operations' = parseOperations(spec)
    /\ parsePc' = "done"
    /\ UNCHANGED <<spec, validatePc, issues, renderVars, camelVars, diffVars, lateVars>>

ValidateSpec ==
    /\ validatePc = "ready"
    /\ issues' = validateSpec(spec)
    /\ validatePc' = "done"
    /\ UNCHANGED <<spec, parsePc, operations, renderVars, camelVars, diffVars, lateVars>>

Next == ParseOperations \/ ValidateSpec

Spec == Init /\ [][Next]_vars

(***************************************************************************)
(* Properties of the extractor and the validator.                          *)
(***************************************************************************)
\* The (path, method) pairs of a document, by path in key order and, within
\* a path, by method in the order get, post, put, delete, patch.
AllPairs(s) ==
    LET es == Entries(Get(s, "paths"))
        n == Len(HttpMethods)
    IN [k \in 1..(Len(es) * n) |->
            [path |-> es[((k - 1) \div n) + 1][1],
             item |-> es[((k - 1) \div n) + 1][2],
             method |-> HttpMethods[((k - 1) % n) + 1]]]

PairOf(d) == <<d.path, d.method>>
PairsOf(ds) == [k \in 1..Len(ds) |-> PairOf(ds[k])]

\* The operation object of the pair is defined and its operationId is
\* present and is a string.
HasStringId(p) ==
    LET op == Get(p.item, p.method)
    IN op.t # "undefined" /\ TypeOf(Get(op, "operationId")) = "string"

DescribedPairs(s) ==
    LET sel == SelectSeq(AllPairs(s), HasStringId)
    IN [k \in 1..Len(sel) |-> <<sel[k].path, sel[k].method>>]

\* C1 (as claimed): parseOperations returns exactly one descriptor for every
\* (path, method) pair whose operation is defined and has a string
\* operationId, and none for any other pair, ordered by path in key order
\* and by method in the fixed order; a document that is not an object or
\* has no paths yields the empty list.
C1_ExactlyTheOperationsWithStringId ==
    parsePc = "done" =>
        /\ operations.error = "none"
        /\ PairsOf(operations.value) = DescribedPairs(spec)

\* An operation that is well formed on its own: an object with a non-empty
\* string operationId and no parameters.
WellFormedAlone(p) ==
    LET op == Get(p.item, p.method)
    IN /\ TypeOf(Get(op, "operationId")) = "string"
       /\ Truthy(Get(op, "operationId"))
       /\ Get(op, "parameters").t = "undefined"

\* C6 (as claimed): parseOperations never raises, whatever the document; a
\* malformed path item or operation is skipped or degraded and the
\* operations of the sibling paths and methods are still extracted.
C6_NeverRaises ==
    parsePc = "done" =>
        /\ operations.error = "none"
        /\ \A k \in 1..Len(AllPairs(spec)) :
               WellFormedAlone(AllPairs(spec)[k]) =>
                   \E j \in 1..Len(operations.value) :
                       PairOf(operations.value[j])
                           = <<AllPairs(spec)[k].path, AllPairs(spec)[k].method>>

MissingIdMessage == "Missing operationId - operation will be skipped during generation"

\* C7 (as claimed): for every defined operation of a document the extractor
\* returns for, the extractor has no descriptor for it if and only if the
\* validator reports a warning 'missing operationId' at /paths<path>/<method>.
C7_ExtractorAndValidatorAgree ==
    (parsePc = "done" /\ validatePc = "done" /\ operations.error = "none") =>
        \A k \in 1..Len(AllPairs(spec)) :
            LET p == AllPairs(spec)[k]
            IN Truthy(Get(p.item, p.method)) =>
                   ((~\E j \in 1..Len(operations.value) :
                          PairOf(operations.value[j]) = <<p.path, p.method>>)
                    <=>
                    (\E j \in 1..Len(issues) :
                          issues[j] = Issue("warning",
                                            OperationPointer(p.path, p.method),
                                            MissingIdMessage)))

(***************************************************************************)
(* toCamelCase (generator.ts 66-70):                                       *)
(*   str.replace(/[-_]([a-z])/g, (_, letter) => letter.toUpperCase())      *)
(***************************************************************************)
LowerLetters == <<"a", "b", "c", "d", "e", "f", "g", "h", "i", "j", "k", "l", "m",
                  "n", "o", "p", "q", "r", "s", "t", "u", "v", "w", "x", "y", "z">>
UpperLetters == <<"A", "B", "C", "D", "E", "F", "G", "H", "I", "J", "K", "L", "M",
                  "N", "O", "P", "Q", "R", "S", "T", "U", "V", "W", "X", "Y", "Z">>

IsLower(c) == \E i \in 1..Len(LowerLetters) : LowerLetters[i] = c
ToUpper(c) ==
    IF IsLower(c)
    THEN UpperLetters[CHOOSE i \in 1..Len(LowerLetters) : LowerLetters[i] = c]
    ELSE c

\* The replacement without the upper-casing of the captured letter.
RECURSIVE CamelFrom_KeepCase(_, _)
CamelFrom_KeepCase(s, i) ==
    IF i > Len(s) THEN <<>>
    ELSE IF s[i] \in {"-", "_"} /\ i < Len(s) /\ IsLower(s[i+1])
         THEN <<s[i+1]>> \o CamelFrom_KeepCase(s, i + 2)
         ELSE <<s[i]>> \o CamelFrom_KeepCase(s, i + 1)

\* The global replace from position i on: a match is a "-" or "_" followed
\* by a letter a-z; matches are found left to right and do not overlap.
RECURSIVE CamelFrom(_, _)
CamelFrom(s, i) ==
    IF i > Len(s) THEN <<>>
    ELSE IF s[i] \in {"-", "_"} /\ i < Len(s) /\ IsLower(s[i+1])
         THEN <<ToUpper(s[i+1])>> \o CamelFrom(s, i + 2)
         ELSE <<s[i]>> \o CamelFrom(s, i + 1)

toCamelCase(s) == CamelFrom(s, 1)

(***************************************************************************)
(* generatePathParamsType (generator.ts 75-82): null for no parameter,     *)
(* else the record type `{ <name>: string | number, ... }`.                *)
(***************************************************************************)
generatePathParamsType(pathParams) ==
    IF Len(pathParams) = 0 THEN Null
    ELSE [kind |-> "record",
          fields |-> [i \in 1..Len(pathParams) |->
                          [name |-> toCamelCase(pathParams[i]),
                           type |-> "string | number"]]]

(***************************************************************************)
(* generateOperationFunction (generator.ts 101-177).  The rendered text is *)
(* kept as its parts: the JSDoc lines, the property name, the parameter    *)
(* list, the return type and the apiClient call.                           *)
(***************************************************************************)
\* method.toLowerCase() and method.toUpperCase() on the method names.
MethodCase ==
    <<<<"get", "GET">>, <<"post", "POST">>, <<"put", "PUT">>,
      <<"delete", "DELETE">>, <<"patch", "PATCH">>>>

MethodToLower(m) ==
    IF \E i \in 1..Len(MethodCase) : MethodCase[i][2] = m
    THEN MethodCase[CHOOSE i \in 1..Len(MethodCase) : MethodCase[i][2] = m][1]
    ELSE m

MethodToUpper(m) ==
    IF \E i \in 1..Len(MethodCase) : MethodCase[i][1] = m
    THEN MethodCase[CHOOSE i \in 1..Len(MethodCase) : MethodCase[i][1] = m][2]
    ELSE m

\* A type argument list <"path", "method"> applied to a generic helper type.
Generic(name, pathTemplate, httpMethod) ==
    [kind |-> "generic", name |-> name, path |-> pathTemplate, method |-> httpMethod]

\* The parameter list that never declares the request body.
FunctionParams_NoData(op) ==
    LET httpMethod == MethodToLower(op.method)
    IN (IF Len(op.pathParams) > 0
        THEN <<[name |-> "pathParams", optional |-> FALSE,
                type |-> generatePathParamsType(op.pathParams)]>>
        ELSE <<>>)
       \o
       <<[name |-> "config", optional |-> TRUE,
          type |-> Generic("RequestConfig", op.path, httpMethod)]>>

\* The parameter list with the request body ahead of the path parameters.
FunctionParams_DataFirst(op) ==
    LET httpMethod == MethodToLower(op.method)
    IN (IF op.hasRequestBody
        THEN <<[name |-> "data", optional |-> FALSE,
                type |-> Generic("RequestBody", op.path, httpMethod)]>>
        ELSE <<>>)
       \o
       (IF Len(op.pathParams) > 0
        THEN <<[name |-> "pathParams", optional |-> FALSE,
                type |-> generatePathParamsType(op.pathParams)]>>
        ELSE <<>>)
       \o
       <<[name |-> "config", optional |-> TRUE,
          type |-> Generic("RequestConfig", op.path, httpMethod)]>>

\* Lines 114-129: the parameter list.
FunctionParams(op) ==
    LET httpMethod == MethodToLower(op.method)
    IN (IF Len(op.pathParams) > 0
        THEN <<[name |-> "pathParams", optional |-> FALSE,
                type |-> generatePathParamsType(op.pathParams)]>>
        ELSE <<>>)
       \o
       (IF op.hasRequestBody
        THEN <<[name |-> "data", optional |-> FALSE,
                type |-> Generic("RequestBody", op.path, httpMethod)]>>
        ELSE <<>>)
       \o
       <<[name |-> "config", optional |-> TRUE,
          type |-> Generic("RequestConfig", op.path, httpMethod)]>>

\* Lines 131-144: the JSDoc comment.
JsDoc(op) ==
    <<[line |-> "/**", arg |-> Null]>>
    \o (IF Truthy(op.summary) THEN <<[line |-> "* ", arg |-> op.summary]>> ELSE <<>>)
    \o (IF Truthy(op.description) /\ op.description # op.summary
        THEN <<[line |-> "* ", arg |-> op.description]>> ELSE <<>>)
    \o <<[line |-> "* ", arg |-> Null],
         [line |-> "* @operationId ", arg |-> Str(op.operationId)],
         [line |-> "* @method ", arg |-> Str(MethodToUpper(op.method))],
         [line |-> "* @path ", arg |-> [t |-> "chars", v |-> op.path]],
         [line |-> "*/", arg |-> Null]>>

\* The call arguments when a PATCH without a body is rendered like a GET.
ApiCallArgs_NoPatchSlot(httpMethod, hasRequestBody, hasPathParams) ==
    IF hasRequestBody
    THEN IF hasPathParams THEN <<"data", "pathParams", "config">>
         ELSE <<"data", "config">>
    ELSE IF hasPathParams THEN <<"pathParams", "config">>
         ELSE <<"config">>

\* Lines 150-173: the arguments of the apiClient call after the path literal.
ApiCallArgs(httpMethod, hasRequestBody, hasPathParams) ==
    IF hasRequestBody
    THEN IF hasPathParams THEN <<"data", "pathParams", "config">>
         ELSE <<"data", "config">>
    ELSE IF httpMethod = "patch"
         THEN IF hasPathParams THEN <<"undefined", "pathParams", "config">>
              ELSE <<"undefined", "config">>
         ELSE IF hasPathParams THEN <<"pathParams", "config">>
              ELSE <<"config">>

generateOperationFunction(op) ==
    LET httpMethod == MethodToLower(op.method)
    IN [jsdoc |-> JsDoc(op),
        name |-> op.operationId,
        params |-> FunctionParams(op),
        returnType |-> Generic("ResponseData", op.path, httpMethod),
        apiCall |-> [method |-> httpMethod,
                     path |-> op.path,
                     args |-> ApiCallArgs(httpMethod, op.hasRequestBody,
                                          Len(op.pathParams) > 0)]]

(***************************************************************************)
(* The diff command.  A Map is its entries in insertion order,             *)
(* <<key, value>> pairs with distinct keys.                                *)
(***************************************************************************)
MapHas(m, k) == \E i \in 1..Len(m) : m[i][1] = k
MapGet(m, k) == m[CHOOSE i \in 1..Len(m) : m[i][1] = k][2]
MapSet(m, k, v) ==
    IF MapHas(m, k)
    THEN [i \in 1..Len(m) |-> IF m[i][1] = k THEN <<k, v>> ELSE m[i]]
    ELSE Append(m, <<k, v>>)
MapKeys(m) == {m[i][1] : i \in 1..Len(m)}

\* SHA256 of a document, taken as collision free.
computeHash(buffer) == [sha256 |-> buffer]

\* Diff.extractOperations, the body of the inner loop for one (path,
\* method): "throw", "skip" or the Map entry that is set.
ExtractOne(pathTemplate, pathItem, method) ==
    IF IsNullish(pathItem) THEN [kind |-> "throw"]
    ELSE LET op == Get(pathItem, method)
             id == Get(op, "operationId")
         IN IF ~(Truthy(op) /\ Truthy(id)) THEN [kind |-> "skip"]
            ELSE [kind |-> "set",
                  key |-> id,
                  info |-> [operationId |-> id,
                            method |-> method,
                            path |-> pathTemplate,
                            hasRequestBody |-> Truthy(Get(op, "requestBody")),
                            summary |-> OrEmpty(Get(op, "summary"))]]

RECURSIVE ExtractLoop(_, _, _, _)
ExtractLoop(entries, pi, mi, acc) ==
    IF pi > Len(entries) THEN [error |-> "none", value |-> acc]
    ELSE IF mi > Len(HttpMethods) THEN ExtractLoop(entries, pi+1, 1, acc)
    ELSE LET r == ExtractOne(entries[pi][1], entries[pi][2], HttpMethods[mi])
         IN CASE r.kind = "throw" -> [error |-> "TypeError", value |-> <<>>]
              [] r.kind = "skip" -> ExtractLoop(entries, pi, mi+1, acc)
              [] OTHER -> ExtractLoop(entries, pi, mi+1, MapSet(acc, r.key, r.info))

\* Diff.extractOperations (diff command 243-280).
extractOperations(s) ==
    IF TypeOf(s) # "object" \/ s.t = "null" THEN [error |-> "none", value |-> <<>>]
    ELSE IF ~Truthy(Get(s, "paths")) THEN [error |-> "none", value |-> <<>>]
    ELSE ExtractLoop(Entries(Get(s, "paths")), 1, 1, <<>>)

\* The change test without the comparison of the summaries.
hasChanges_IgnoresSummary(a, b) ==
    \/ a.method # b.method
    \/ a.path # b.path
    \/ a.hasRequestBody # b.hasRequestBody

\* Diff.hasChanges (diff command 285-292).
hasChanges(a, b) ==
    \/ a.method # b.method
    \/ a.path # b.path
    \/ a.hasRequestBody # b.hasRequestBody
    \/ a.summary # b.summary

Values(m) == [i \in 1..Len(m) |-> m[i][2]]

\* The first loop of the comparison (152-166): the new operations that the
\* current map does not have ...
DiffAdded(currentOperations, newOperations) ==
    Values(SelectSeq(newOperations,
                     LAMBDA e : ~MapHas(currentOperations, e[1])))

\* ... and those it has with a change.
DiffModified(currentOperations, newOperations) ==
    LET both == SelectSeq(newOperations,
                          LAMBDA e : /\ MapHas(currentOperations, e[1])
                                     /\ hasChanges(MapGet(currentOperations, e[1]), e[2]))
    IN [i \in 1..Len(both) |->
            [old |-> MapGet(currentOperations, both[i][1]), new |-> both[i][2]]]

\* The second loop with its membership test dropped.
DiffRemoved_All(currentOperations, newOperations) ==
    Values(currentOperations)

\* The second loop (168-173): the current operations the new map lacks.
DiffRemoved(currentOperations, newOperations) ==
    Values(SelectSeq(currentOperations,
                     LAMBDA e : ~MapHas(newOperations, e[1])))

NoDiff == [currentOperations |-> <<>>, newOperations |-> <<>>,
           added |-> <<>>, removed |-> <<>>, modified |-> <<>>]

\* Diff.run (diff command 79-238) on the inputs in.
\* The outcome is the position the command ends in and what it computed.
DiffRunOutcome(in) ==
    LET cur == IF in.hasCurrentSpec THEN extractOperations(in.currentSpec)
               ELSE [error |-> "none", value |-> <<>>]
        new == extractOperations(in.newSpec)
        newHash == computeHash(in.newSpec)
    IN IF cur.error # "none" THEN [pc |-> "failed", out |-> NoDiff]
       ELSE IF in.newLoad = "notfound" THEN [pc |-> "nospec", out |-> NoDiff]
       ELSE IF in.newLoad = "error" THEN [pc |-> "failed", out |-> NoDiff]
       ELSE IF /\ in.cacheMetadata.t # "null"
               /\ in.cacheMetadata.hash = newHash
               /\ ~in.flagsSpec
            THEN [pc |-> "identical", out |-> NoDiff]
       ELSE IF new.error # "none" THEN [pc |-> "failed", out |-> NoDiff]
       ELSE [pc |-> "done",
             out |-> [currentOperations |-> cur.value,
                      newOperations |-> new.value,
                      added |-> DiffAdded(cur.value, new.value),
                      removed |-> DiffRemoved(cur.value, new.value),
                      modified |-> DiffModified(cur.value, new.value)]]

(***************************************************************************)
(* SpecDiff: one run of the diff command.                                  *)
(***************************************************************************)
MaxDiffOps == 2

DiffKeys == <<PathA, PathB>>
DiffMethodKeys(k) == IF k = PathA THEN {"get", "post"} ELSE {"get"}

MkDiffOperation(id, requestBody, parameters, summary, description) ==
    Obj(Fields(<<<<"operationId", id>>, <<"requestBody", requestBody>>,
                 <<"parameters", parameters>>, <<"summary", summary>>,
                 <<"description", description>>>>))

DiffOperationValues ==
    {MkDiffOperation(Str("opA"), Undefined, Undefined, Undefined, Undefined),
     MkDiffOperation(Str("opA"), EmptyObj, Undefined, Undefined, Undefined),
     MkDiffOperation(Str("opA"), Undefined, Arr(<<QueryParam>>), Undefined, Undefined),
     MkDiffOperation(Str("opA"), Undefined, Undefined, Str("s"), Undefined),
     MkDiffOperation(Str("opA"), Undefined, Undefined, Undefined, Str("d")),
     MkDiffOperation(Str("opB"), Undefined, Undefined, Undefined, Undefined),
     MkDiffOperation(Str("opC"), Undefined, Undefined, Undefined, Undefined)}

\* The documents compared: at most MaxDiffOps operations over the paths
\* "/a" (get, post) and "/b/{id}" (get), and one document whose first path
\* item is null.
AllObjects == [i \in 1..Len(DiffKeys) |-> "object"]

DiffDocs ==
    UNION {
        {MkSpec(Str("3.0.0"), EmptyObj, MkPaths(DiffKeys, AllObjects, ms, ops), Undefined) :
             ops \in [{im \in (1..Len(DiffKeys)) \X {"get", "post"} : im[2] \in ms[im[1]]}
                          -> DiffOperationValues]} :
        ms \in {f \in [1..Len(DiffKeys) -> SUBSET {"get", "post"}] :
                    /\ \A i \in 1..Len(DiffKeys) : f[i] \subseteq DiffMethodKeys(DiffKeys[i])
                    /\ SumCard(f, Len(DiffKeys)) <= MaxDiffOps}}
    \cup {MkSpec(Str("3.0.0"), EmptyObj,
                 Obj(<<<<PathA, Null>>, <<PathB, EmptyObj>>>>), Undefined)}

EmptyDoc == MkSpec(Str("3.0.0"), EmptyObj, EmptyObj, Undefined)

CacheOf(doc) == [t |-> "object", hash |-> computeHash(doc)]

\* The new spec cannot be loaded; or there is no current spec; or both are
\* there and the cache metadata is that of the current spec, the new spec
\* being fetched or, for a copy of the current spec, given by --spec.
InitDiff ==
    /\ \/ \E load \in {"notfound", "error"} :
              diffIn = [hasCurrentSpec |-> TRUE, currentSpec |-> EmptyDoc,
                        newSpec |-> EmptyDoc, newLoad |-> load,
                        flagsSpec |-> (load = "notfound"), cacheMetadata |-> Null]
       \/ \E new \in DiffDocs :
              diffIn = [hasCurrentSpec |-> FALSE, currentSpec |-> Null,
                        newSpec |-> new, newLoad |-> "ok",
                        flagsSpec |-> FALSE, cacheMetadata |-> Null]
       \/ \E cur \in DiffDocs, new \in DiffDocs :
              diffIn = [hasCurrentSpec |-> TRUE, currentSpec |-> cur,
                        newSpec |-> new, newLoad |-> "ok",
                        flagsSpec |-> FALSE, cacheMetadata |-> CacheOf(cur)]
       \/ \E cur \in DiffDocs :
              diffIn = [hasCurrentSpec |-> TRUE, currentSpec |-> cur,
                        newSpec |-> cur, newLoad |-> "ok",
                        flagsSpec |-> TRUE, cacheMetadata |-> CacheOf(cur)]
    /\ diffPc = "ready"
    /\ diffOut = NoDiff
    /\ ExtractIdle /\ RenderIdle /\ CamelIdle /\ LateIdle

DiffRun ==
    /\ diffPc = "ready"
    /\ LET r == DiffRunOutcome(diffIn)
       IN /\ diffPc' = r.pc
          /\ diffOut' = r.out
    /\ UNCHANGED <<diffIn, extractVars, renderVars, camelVars, lateVars>>

NextDiff == DiffRun

SpecDiff == InitDiff /\ [][NextDiff]_vars

(***************************************************************************)
(* SpecRender: generateOperationFunction applied to one descriptor.        *)
(***************************************************************************)
PathC == <<"/", "c", "/", "{", "u", "_", "i", "}", "/", "{", "p", "-", "k", "}">>
RenderPaths == {PathA, PathB, PathC}

\* The descriptors parseOperations can build over RenderPaths.
IsDescriptor(op) ==
    \E id \in {"opA", "opB"}, m \in {HttpMethods[i] : i \in 1..Len(HttpMethods)},
       p \in RenderPaths, body \in BOOLEAN, query \in BOOLEAN,
       sum \in {Str(""), Str("s")}, desc \in {Str(""), Str("s"), Str("d")} :
        op = [operationId |-> id, method |-> m, path |-> p,
              pathParams |-> extractPathParams(p),
              hasRequestBody |-> body, hasQueryParams |-> query,
              summary |-> sum, description |-> desc]

InitRender ==
    /\ IsDescriptor(operation)
    /\ renderPc = "ready"
    /\ rendered = Null
    /\ ExtractIdle /\ CamelIdle /\ DiffIdle /\ LateIdle

GenerateOperationFunction ==
    /\ renderPc = "ready"
    /\ rendered' = generateOperationFunction(operation)
    /\ renderPc' = "done"
    /\ UNCHANGED <<operation, extractVars, camelVars, diffVars, lateVars>>

NextRender == GenerateOperationFunction

SpecRender == InitRender /\ [][NextRender]_vars

(***************************************************************************)
(* SpecCamel: toCamelCase applied twice to one string.                     *)
(***************************************************************************)
MaxLen == 4
CamelAlphabet == {"-", "_", "a", "b", "A", "1"}

InitCamel ==
    /\ \E n \in 0..MaxLen : str \in [1..n -> CamelAlphabet]
    /\ camelPc = "ready"
    /\ camelOnce = <<>>
    /\ camelTwice = <<>>
    /\ ExtractIdle /\ RenderIdle /\ DiffIdle /\ LateIdle

CamelFirst ==
    /\ camelPc = "ready"
    /\ camelOnce' = toCamelCase(str)
    /\ camelPc' = "once"
    /\ UNCHANGED <<str, camelTwice, extractVars, renderVars, diffVars, lateVars>>

CamelSecond ==
    /\ camelPc = "once"
    /\ camelTwice' = toCamelCase(camelOnce)
    /\ camelPc' = "twice"
    /\ UNCHANGED <<str, camelOnce, extractVars, renderVars, diffVars, lateVars>>

NextCamel == CamelFirst \/ CamelSecond

SpecCamel == InitCamel /\ [][NextCamel]_vars

(***************************************************************************)
(* Properties of the renderer.                                             *)
(***************************************************************************)
HasPathParams == Len(operation.pathParams) > 0

\* C2 (as claimed): a post or put descriptor, whatever hasRequestBody,
\* renders (path, data, pathParams, config), or (path, data, config)
\* without path parameters.
C2_PostPutAlwaysPassData ==
    (renderPc = "done" /\ operation.method \in {"post", "put"}) =>
        rendered.apiCall.args =
            IF HasPathParams THEN <<"data", "pathParams", "config">>
            ELSE <<"data", "config">>

\* C3 (as claimed): a get or delete descriptor, whatever hasRequestBody,
\* renders (path, pathParams, config), or (path, config) without path
\* parameters, and never a data argument.
C3_GetDeleteNeverPassData ==
    (renderPc = "done" /\ operation.method \in {"get", "delete"}) =>
        rendered.apiCall.args =
            IF HasPathParams THEN <<"pathParams", "config">> ELSE <<"config">>

\* C4: a patch descriptor without a request body renders an explicit
\* `undefined` in the body slot, before the path parameters:
\* (path, undefined, pathParams, config) or (path, undefined, config); with
\* a request body it renders (path, data, pathParams, config) or
\* (path, data, config).
C4_PatchKeepsBodySlot ==
    (renderPc = "done" /\ operation.method = "patch") =>
        /\ rendered.apiCall.method = "patch"
        /\ rendered.apiCall.path = operation.path
        /\ rendered.apiCall.args =
              <<IF operation.hasRequestBody THEN "data" ELSE "undefined">>
                  \o (IF HasPathParams THEN <<"pathParams">> ELSE <<>>)
                  \o <<"config">>

C4_Witness ==
    /\ renderPc = "done"
    /\ operation.method = "patch"
    /\ ~operation.hasRequestBody
    /\ HasPathParams
    /\ rendered.apiCall.args = <<"undefined", "pathParams", "config">>

ParamNames(ps) == [i \in 1..Len(ps) |-> ps[i].name]

\* C5: the rendered signature has a pathParams parameter iff pathParams is
\* non-empty, a data parameter iff hasRequestBody, and always an optional
\* config parameter, in that order with config last; the type of pathParams
\* maps each camel-cased parameter name to `string | number`.
C5_Signature ==
    renderPc = "done" =>
        LET ps == rendered.params
        IN /\ ParamNames(ps) =
                  (IF HasPathParams THEN <<"pathParams">> ELSE <<>>)
                      \o (IF operation.hasRequestBody THEN <<"data">> ELSE <<>>)
                      \o <<"config">>
           /\ ps[Len(ps)].optional
           /\ \A i \in 1..(Len(ps) - 1) : ~ps[i].optional
           /\ HasPathParams =>
                  /\ Len(ps[1].type.fields) = Len(operation.pathParams)
                  /\ \A i \in 1..Len(operation.pathParams) :
                         /\ ps[1].type.fields[i].type = "string | number"
                         /\ ps[1].type.fields[i].name
                                = toCamelCase(operation.pathParams[i])

C5_Witness ==
    /\ renderPc = "done"
    /\ operation.hasRequestBody
    /\ operation.pathParams = <<<<"u", "_", "i">>, <<"p", "-", "k">>>>
    /\ ParamNames(rendered.params) = <<"pathParams", "data", "config">>
    /\ rendered.params[1].type.fields[1].name = <<"u", "I">>
    /\ rendered.params[1].type.fields[2].name = <<"p", "K">>

(***************************************************************************)
(* Properties of toCamelCase.                                              *)
(***************************************************************************)
\* C10: toCamelCase is idempotent: applying it to its own result changes
\* nothing, toCamelCase(toCamelCase(x)) = toCamelCase(x).
C10_Idempotent ==
    camelPc = "twice" => camelTwice = camelOnce

\* A string with a separator run ahead of a letter, converted twice.
C10_Witness ==
    /\ camelPc = "twice"
    /\ str = <<"a", "-", "_", "b">>
    /\ camelOnce = <<"a", "-", "B">>
    /\ camelTwice = <<"a", "-", "B">>

(***************************************************************************)
(* Properties of the differ.                                               *)
(***************************************************************************)
OldIds == MapKeys(diffOut.currentOperations)
NewIds == MapKeys(diffOut.newOperations)
IdsOf(infos) == {infos[i].operationId : i \in 1..Len(infos)}
AddedIds == IdsOf(diffOut.added)
RemovedIds == IdsOf(diffOut.removed)
ModifiedIds == {diffOut.modified[i].new.operationId : i \in 1..Len(diffOut.modified)}

\* C8: with A the ids of the old map and B those of the new one,
\* added = B \ A and removed = A \ B; an id of both is reported at most
\* once, as modified, or not at all (unchanged); added, removed and
\* modified are pairwise disjoint and list no id twice.
C8_DiffCompleteness ==
    diffPc = "done" =>
        /\ AddedIds = NewIds \ OldIds
        /\ RemovedIds = OldIds \ NewIds
        /\ ModifiedIds \subseteq (OldIds \cap NewIds)
        /\ Len(diffOut.added) = Cardinality(AddedIds)
        /\ Len(diffOut.removed) = Cardinality(RemovedIds)
        /\ Len(diffOut.modified) = Cardinality(ModifiedIds)
        /\ AddedIds \cap RemovedIds = {}
        /\ AddedIds \cap ModifiedIds = {}
        /\ RemovedIds \cap ModifiedIds = {}

\* An operation added, one removed and one modified in the same run.
C8_Witness ==
    /\ diffPc = "done"
    /\ AddedIds = {Str("opC")}
    /\ RemovedIds = {Str("opB")}
    /\ ModifiedIds = {Str("opA")}

\* The operation object a Map entry was extracted from.
SourceOp(doc, info) == Get(Get(Get(doc, "paths"), info.path), info.method)

\* An operation object without its description and its parameters.
Core(op) ==
    Obj(SelectSeq(op.v, LAMBDA e : e[1] \notin {"description", "parameters"}))

\* C9: an id of both maps is modified if and only if its two entries differ
\* in method, path, hasRequestBody or summary; two operations that differ
\* only in description or parameters (hasQueryParams) are not modified.
C9_ModifiedIffCoreFieldDiffers ==
    diffPc = "done" =>
        \A id \in OldIds \cap NewIds :
            LET a == MapGet(diffOut.currentOperations, id)
                b == MapGet(diffOut.newOperations, id)
            IN /\ (id \in ModifiedIds) <=>
                      (\/ a.method # b.method
                       \/ a.path # b.path
                       \/ a.hasRequestBody # b.hasRequestBody
                       \/ a.summary # b.summary)
               /\ (/\ a.method = b.method
                   /\ a.path = b.path
                   /\ Core(SourceOp(diffIn.currentSpec, a))
                          = Core(SourceOp(diffIn.newSpec, b)))
                      => id \notin ModifiedIds

\* An operation whose description or parameters alone changed between the
\* two documents and which is not reported as modified.
C9_Witness ==
    /\ diffPc = "done"
    /\ \E id \in (OldIds \cap NewIds) \ ModifiedIds :
           LET a == MapGet(diffOut.currentOperations, id)
               b == MapGet(diffOut.newOperations, id)
           IN /\ a.method = b.method
              /\ a.path = b.path
              /\ SourceOp(diffIn.currentSpec, a) # SourceOp(diffIn.newSpec, b)

(***************************************************************************)
(* SpecPath: extractPathParams applied to a path template that is written  *)
(* as literal text and placeholders in alternation,                        *)
(*     literals[1] {names[1]} literals[2] ... {names[n]} literals[n+1]     *)
(* where no literal holds a brace and every name is non-empty and holds no *)
(* brace.  The names are arbitrary otherwise: snake_case, kebab-case,      *)
(* upper case, digits, blanks.                                             *)
(***************************************************************************)
MaxPlaceholders == 2

PathLiterals ==
    { <<>>, <<"/">>, <<"/", "a">>, <<"/", "a", "/">> }

PlaceholderNames ==
    { <<"i", "d">>, <<"u", "_", "i">>, <<"p", "-", "k">>, <<"1", " ", "A">> }

\* The text of the template: the literals and the braced names interleaved.
RECURSIVE BuildTemplate(_, _, _)
BuildTemplate(literals, names, i) ==
    IF i > Len(names) THEN literals[i]
    ELSE literals[i] \o <<"{">> \o names[i] \o <<"}">>
             \o BuildTemplate(literals, names, i + 1)

InitPath ==
    /\ \E n \in 0..MaxPlaceholders :
           \E names \in [1..n -> PlaceholderNames] :
               \E literals \in [1..(n+1) -> PathLiterals] :
                   pathIn = [literals |-> literals,
                             names |-> names,
                             template |-> BuildTemplate(literals, names, 1)]
    /\ pathPc = "ready"
    /\ pathOut = <<>>
    /\ CoreIdle /\ NewIdle /\ CmdIdle /\ CallIdle /\ FetchIdle /\ GenIdle

ExtractPathParams ==
    /\ pathPc = "ready"
    /\ pathOut' = extractPathParams(pathIn.template)
    /\ pathPc' = "done"
    /\ UNCHANGED <<pathIn, coreVars, newVars, cmdVars, callVars, fetchVars, genVars>>

NextPath == ExtractPathParams

SpecPath == InitPath /\ [][NextPath]_vars

\* C11: for a template whose placeholders are {p1}, ..., {pn} from left to
\* right, extractPathParams returns exactly <<p1, ..., pn>>: the same
\* order, repeated names kept, the names as written, and the empty list
\* for a template without placeholder.
C11_ParamsInOrder ==
    pathPc = "done" => pathOut = pathIn.names

\* A template with the same name in two placeholders, a different literal
\* between them, and both occurrences returned.
C11_Witness ==
    /\ pathPc = "done"
    /\ Len(pathIn.names) >= 2
    /\ pathIn.names[1] = pathIn.names[2]
    /\ pathIn.literals[2] # <<>>
    /\ Len(pathOut) = Len(pathIn.names)
    /\ pathOut[1] = pathOut[2]

(***************************************************************************)
(* SpecValidate: the validator alone, applied to one spec document.        *)
(***************************************************************************)
InitValidate ==
    /\ IsSpecValue(spec)
    /\ parsePc = "idle"
    /\ operations = NoOutcome
    /\ validatePc = "ready"
    /\ issues = <<>>
    /\ RenderIdle /\ CamelIdle /\ DiffIdle /\ LateIdle

NextValidate == ValidateSpec

SpecValidate == InitValidate /\ [][NextValidate]_vars

(***************************************************************************)
(* The severity table of the validator, read off a document rule by rule.  *)
(* "Missing" is what the code tests: the field is absent or falsy.  "Not   *)
(* an object" is typeof x !== "object" or x === null.                      *)
(***************************************************************************)
IsObject(x) == TypeOf(x) = "object" /\ x.t # "null"

IssueSet == {issues[k] : k \in 1..Len(issues)}

NoDuplicateIssue == Cardinality(IssueSet) = Len(issues)

VersionIssues(s) ==
    IF ~Truthy(Get(s, "openapi")) /\ ~Truthy(Get(s, "swagger"))
    THEN {Issue("error", RootPointer("/"), "Missing 'openapi' or 'swagger' version field")}
    ELSE {}

InfoIssues(s) ==
    IF ~Truthy(Get(s, "info"))
    THEN {Issue("error", RootPointer("/info"), "Missing required 'info' object")}
    ELSE {}

PathItemIssues(s) ==
    LET es == Entries(Get(s, "paths"))
    IN {Issue("error", PathPointer(es[k][1]), "Path item must be an object") :
            k \in {j \in 1..Len(es) : ~IsObject(es[j][2])}}

DefinedPairs(s) ==
    LET ps == AllPairs(s)
    IN {ps[k] : k \in {j \in 1..Len(ps) :
                           IsObject(ps[j].item) /\ Truthy(Get(ps[j].item, ps[j].method))}}

OperationIdIssues(s) ==
    {Issue("warning", OperationPointer(p.path, p.method),
           "Missing operationId - operation will be skipped during generation") :
        p \in {q \in DefinedPairs(s) : ~Truthy(Get(Get(q.item, q.method), "operationId"))}}

ResponsesIssues(s) ==
    {Issue("warning", OperationPointer(p.path, p.method), "Missing responses definition") :
        p \in {q \in DefinedPairs(s) : ~Truthy(Get(Get(q.item, q.method), "responses"))}}

NoPathsIssues(s) ==
    IF ~Truthy(Get(s, "paths"))
    THEN {Issue("warning", RootPointer("/paths"), "No paths defined in spec")}
    ELSE {}

ComponentsIssues(s) ==
    IF Truthy(Get(s, "components")) /\ ~Truthy(Get(Get(s, "components"), "schemas"))
    THEN {Issue("warning", RootPointer("/components"), "No schemas defined in components")}
    ELSE {}

TableIssues(s) ==
    VersionIssues(s) \cup InfoIssues(s) \cup PathItemIssues(s)
        \cup OperationIdIssues(s) \cup ResponsesIssues(s)
        \cup NoPathsIssues(s) \cup ComponentsIssues(s)

\* C12 (as claimed): validateSpec returns exactly the issues of the severity
\* table and nothing else, whatever the document.
C12_ExactlyTheTable ==
    validatePc = "done" => (IssueSet = TableIssues(spec) /\ NoDuplicateIssue)

\* C12 (amended): for a document that is an object, validateSpec returns
\* exactly the issues of the severity table, each once; for a document that
\* is not an object it returns the single error "Spec must be a valid JSON
\* object" at the root and none of the table's issues.
C12_TableForObjects ==
    validatePc = "done" =>
        IF IsObject(spec)
        THEN IssueSet = TableIssues(spec) /\ NoDuplicateIssue
        ELSE issues = <<Issue("error", RootPointer("/"), "Spec must be a valid JSON object")>>

\* A document whose first path item is not an object and whose second path
\* has an operation without operationId: both are reported.
C12_Witness ==
    /\ validatePc = "done"
    /\ IsObject(spec)
    /\ LET es == Entries(Get(spec, "paths"))
       IN /\ Len(es) >= 2
          /\ ~IsObject(es[1][2])
          /\ Issue("error", PathPointer(es[1][1]), "Path item must be an object") \in IssueSet
          /\ \E m \in {"get", "post", "put", "delete", "patch"} :
                 Issue("warning", OperationPointer(es[2][1], m),
                       "Missing operationId - operation will be skipped during generation")
                     \in IssueSet

(***************************************************************************)
(* Validate.run (validate.ts 83-163).  The spec path comes from --spec or  *)
(* from the configuration; a configuration that cannot be loaded and a     *)
(* spec file that is absent (or is not JSON) end the command before any    *)
(* validation.  this.exit(1) ends a run with status 1, returning from run  *)
(* ends it with status 0.                                                  *)
(***************************************************************************)
IsError(i) == i.severity = "error"
IsWarning(i) == i.severity = "warning"

\* The decision that fails on any issue, strict or not.
ValidateRunOutcome_WarningsFail(in) ==
    IF in.load = "configError"
    THEN [issues |-> <<>>, thrown |-> "ConfigError", reported |-> <<>>, exit |-> 1]
    ELSE IF in.load = "notFound"
    THEN [issues |-> <<>>, thrown |-> "SpecNotFoundError", reported |-> <<>>, exit |-> 1]
    ELSE LET all == validateSpec(in.spec)
             errors == SelectSeq(all, IsError)
             warnings == SelectSeq(all, IsWarning)
         IN IF Len(errors) > 0 \/ Len(warnings) > 0
            THEN [issues |-> all, thrown |-> "ValidationError",
                  reported |-> IF in.strict THEN all ELSE errors, exit |-> 1]
            ELSE [issues |-> all, thrown |-> "none", reported |-> <<>>, exit |-> 0]

ValidateRunOutcome(in) ==
    IF in.load = "configError"
    THEN [issues |-> <<>>, thrown |-> "ConfigError", reported |-> <<>>, exit |-> 1]
    ELSE IF in.load = "notFound"
    THEN [issues |-> <<>>, thrown |-> "SpecNotFoundError", reported |-> <<>>, exit |-> 1]
    ELSE LET all == validateSpec(in.spec)
             errors == SelectSeq(all, IsError)
             warnings == SelectSeq(all, IsWarning)
         IN IF Len(errors) > 0 \/ (in.strict /\ Len(warnings) > 0)
            THEN [issues |-> all, thrown |-> "ValidationError",
                  reported |-> IF in.strict THEN all ELSE errors, exit |-> 1]
            ELSE [issues |-> all, thrown |-> "none", reported |-> <<>>, exit |-> 0]

\* What loading the spec can come to.
LoadOutcomes == {"ok", "configError", "notFound"}

InitValidateCmd ==
    /\ \E s \in RootSpecValues, strict \in BOOLEAN, load \in LoadOutcomes :
           cmdIn = [spec |-> s, strict |-> strict, load |-> load]
    /\ cmdPc = "ready"
    /\ cmdOut = Null
    /\ CoreIdle /\ NewIdle /\ PathIdle /\ CallIdle /\ FetchIdle /\ GenIdle

ValidateRun ==
    /\ cmdPc = "ready"
    /\ cmdOut' = ValidateRunOutcome(cmdIn)
    /\ cmdPc' = "done"
    /\ UNCHANGED <<cmdIn, coreVars, newVars, pathVars, callVars, fetchVars, genVars>>

NextValidateCmd == ValidateRun

SpecValidateCmd == InitValidateCmd /\ [][NextValidateCmd]_vars

\* Every issue the document has, by the severity table (and the root error
\* of a document that is not an object).
AllIssuesOf(s) ==
    IF IsObject(s) THEN TableIssues(s)
    ELSE {Issue("error", RootPointer("/"), "Spec must be a valid JSON object")}

\* C13: once the spec document is loaded, the validate command collects
\* every issue of the document before deciding, and exits with status 1 if
\* and only if the document has an error-severity issue, or --strict is
\* given and it has a warning; otherwise (no issue, or warnings only
\* without --strict) it ends with status 0.
C13_ExitStatus ==
    (cmdPc = "done" /\ cmdIn.load = "ok") =>
        /\ {cmdOut.issues[k] : k \in 1..Len(cmdOut.issues)} = AllIssuesOf(cmdIn.spec)
        /\ (cmdOut.exit = 1) <=>
               (\/ \E i \in AllIssuesOf(cmdIn.spec) : i.severity = "error"
                \/ cmdIn.strict /\ \E i \in AllIssuesOf(cmdIn.spec) : i.severity = "warning")
        /\ cmdOut.exit \in {0, 1}

\* A document with warnings and no error: it passes without --strict.
C13_Witness ==
    /\ cmdPc = "done"
    /\ cmdIn.load = "ok"
    /\ ~cmdIn.strict
    /\ \E i \in AllIssuesOf(cmdIn.spec) : i.severity = "warning"
    /\ \A i \in AllIssuesOf(cmdIn.spec) : i.severity = "warning"
    /\ Len(cmdOut.issues) >= 1
    /\ cmdOut.exit = 0

(***************************************************************************)
(* The generated client (client template, generator.ts 1195-1562, and the  *)
(* error template, 1050-1188): one call of api.get / post / put / delete / *)
(* patch.  The api.op.* functions call these methods and add nothing.      *)
(* A call either throws while the method body runs, or returns a promise   *)
(* that settles with a Result.                                             *)
(***************************************************************************)
\* String(value) of a path parameter value.
JsString(v) ==
    CASE v.t = "number" -> <<CHOOSE d \in {"0", "1", "2", "3", "4", "5", "6", "7", "8", "9"} :
                                 d = ToString(v.v)>>
      [] v.t = "string" -> v.v
      [] OTHER -> <<"[", "o", "b", "j", "e", "c", "t", "]">>

\* encodeURIComponent: letters, digits and - _ . ! ~ * ' ( ) are kept, any
\* other character is percent-encoded.
EncodeChar(c) ==
    CASE c = "/" -> <<"%", "2", "F">>
      [] c = " " -> <<"%", "2", "0">>
      [] c = "{" -> <<"%", "7", "B">>
      [] c = "}" -> <<"%", "7", "D">>
      [] c = "[" -> <<"%", "5", "B">>
      [] c = "]" -> <<"%", "5", "D">>
      [] OTHER -> <<c>>

RECURSIVE encodeURIComponent(_)
encodeURIComponent(s) ==
    IF s = <<>> THEN <<>> ELSE EncodeChar(Head(s)) \o encodeURIComponent(Tail(s))

\* pathStr.replace(/\{([^}]+)\}/g, ...) from position i on: the replaced text
\* and the keys pushed to `missing`.
RECURSIVE InterpolateFrom(_, _, _)
InterpolateFrom(s, i, params) ==
    IF i > Len(s) THEN [text |-> <<>>, missing |-> <<>>]
    ELSE IF s[i] = "{" /\ i + 1 <= Len(s) /\ s[i+1] # "}" /\ FirstClose(s, i+1) # 0
         THEN LET close == FirstClose(s, i+1)
                  key == SubSeq(s, i+1, close - 1)
                  value == Get(params, key)
                  rest == InterpolateFrom(s, close + 1, params)
              IN IF IsNullish(value)
                 THEN [text |-> SubSeq(s, i, close) \o rest.text,
                       missing |-> <<key>> \o rest.missing]
                 ELSE [text |-> encodeURIComponent(JsString(value)) \o rest.text,
                       missing |-> rest.missing]
         ELSE LET rest == InterpolateFrom(s, i+1, params)
              IN [text |-> <<s[i]>> \o rest.text, missing |-> rest.missing]

\* interpolatePath (1324-1348).
interpolatePath(template, params) ==
    IF ~Truthy(params) THEN [error |-> "none", value |-> template]
    ELSE LET r == InterpolateFrom(template, 1, params)
         IN IF Len(r.missing) > 0
            THEN [error |-> "Error", value |-> r.missing]
            ELSE [error |-> "none", value |-> r.text]

EndsWith(s, suffix) ==
    /\ Len(s) >= Len(suffix)
    /\ SubSeq(s, Len(s) - Len(suffix) + 1, Len(s)) = suffix

\* shouldUseFormData (1353-1357) for data that is not a FormData instance.
shouldUseFormData(path) ==
    \/ EndsWith(path, <<"/", "u", "p", "l", "o", "a", "d", "-", "i", "m", "a", "g", "e", "s">>)
    \/ EndsWith(path, <<"/", "u", "p", "l", "o", "a", "d">>)
    \/ EndsWith(path, <<"/", "f", "i", "l", "e", "s", "/", "u", "p", "l", "o", "a", "d">>)

\* getErrorCode (1085-1104).
getErrorCode(status) ==
    IF status >= 500 THEN "SERVER_ERROR"
    ELSE CASE status = 400 -> "BAD_REQUEST"
           [] status = 401 -> "UNAUTHORIZED"
           [] status = 403 -> "FORBIDDEN"
           [] status = 404 -> "NOT_FOUND"
           [] status = 409 -> "CONFLICT"
           [] status = 422 -> "VALIDATION_ERROR"
           [] status = 429 -> "RATE_LIMITED"
           [] OTHER -> "REQUEST_ERROR"

\* What the axios promise settles with.
RequestOutcomes ==
    { [kind |-> "response", status |-> 200],
      [kind |-> "axiosError", status |-> 404],
      [kind |-> "axiosError", status |-> 503],
      [kind |-> "axiosNoResponse", status |-> 0],
      [kind |-> "axiosTimeout", status |-> 0],
      [kind |-> "otherError", status |-> 0] }

\* createApiError (1109-1146): code and status of the ApiError.
createApiError(err) ==
    CASE err.kind = "axiosNoResponse" -> [code |-> "NETWORK_ERROR", status |-> Null]
      [] err.kind = "axiosTimeout" -> [code |-> "TIMEOUT", status |-> Null]
      [] err.kind = "axiosError" -> [code |-> getErrorCode(err.status), status |-> Num(err.status)]
      [] OTHER -> [code |-> "UNKNOWN_ERROR", status |-> Null]

\* safeRequest (1165-1174).
safeRequest(outcome) ==
    IF outcome.kind = "response"
    THEN [data |-> Str("body"), error |-> Null]
    ELSE [data |-> Null, error |-> createApiError(outcome)]

\* One call api[method](url, [data,] arg, config): what was thrown while the
\* method ran, the path handed to axios and the Result the promise gives.
ClientCall(in) ==
    LET hasPathParams == \E k \in 1..Len(in.url) : in.url[k] = "{"
        pathParams == IF hasPathParams THEN in.arg ELSE Undefined
        resolved == interpolatePath(in.url, pathParams)
    IN IF resolved.error # "none"
       THEN [threw |-> "Error", path |-> <<>>, result |-> Null]
       ELSE IF /\ in.method = "post"
               /\ shouldUseFormData(resolved.value)
               /\ IsNullish(in.data)
       THEN \* convertToFormData: Object.entries(data) of null or undefined
            [threw |-> "TypeError", path |-> <<>>, result |-> Null]
       ELSE [threw |-> "none", path |-> resolved.value, result |-> safeRequest(in.request)]

PathUpload == <<"/", "b", "/", "{", "i", "d", "}", "/", "u", "p", "l", "o", "a", "d">>
ClientUrls == {PathA, PathB, PathC, PathUpload}
ClientMethods == {"get", "post", "put", "delete", "patch"}

IdKey == <<"i", "d">>

\* The argument in the pathParams position: absent, a complete record, a
\* record without the key, with a null value, with a text value, and a
\* value that is not a record.
PathParamArgs ==
    { Undefined,
      EmptyObj,
      Obj(<<<<IdKey, Num(7)>>>>),
      Obj(<<<<IdKey, Str(<<"x", "/", "y">>)>>>>),
      Obj(<<<<IdKey, Null>>>>),
      Obj(<<<<IdKey, Num(7)>>, <<<<"u", "_", "i">>, Num(1)>>, <<<<"p", "-", "k">>, Num(2)>>>>),
      Num(5) }

ClientData == {Undefined, Null, EmptyObj}

InitClient ==
    /\ \E m \in ClientMethods, u \in ClientUrls, a \in PathParamArgs,
          d \in ClientData, r \in RequestOutcomes :
           callIn = [method |-> m, url |-> u, arg |-> a,
                     data |-> IF m \in {"post", "put", "patch"} THEN d ELSE Undefined,
                     request |-> r]
    /\ callPc = "ready"
    /\ callOut = Null
    /\ CoreIdle /\ NewIdle /\ PathIdle /\ CmdIdle /\ FetchIdle /\ GenIdle

ApiCall ==
    /\ callPc = "ready"
    /\ callOut' = ClientCall(callIn)
    /\ callPc' = "done"
    /\ UNCHANGED <<callIn, coreVars, newVars, pathVars, cmdVars, fetchVars, genVars>>

NextClient == ApiCall

SpecClient == InitClient /\ [][NextClient]_vars

\* C15 (as claimed): every call of a client method returns a Result
\* {data, error} and never throws, whatever the request comes to and
\* whatever the arguments are, a missing or incomplete path-parameter
\* record included.
C15_NeverThrows ==
    callPc = "done" =>
        /\ callOut.threw = "none"
        /\ callOut.result # Null
        /\ (callOut.result.data = Null) # (callOut.result.error = Null)

(***************************************************************************)
(* generate (generator.ts 1689-1785) and the file helpers it calls         *)
(* (412-545), one file-system step at a time.                              *)
(*                                                                         *)
(* fs holds what each file contains: Absent, the content before the run,   *)
(* the complete content the run generates (genIn.content), or Partial: a   *)
(* file that is being written in place and is not complete yet.            *)
(* api.types.ts is written by the openapi-typescript process, which is     *)
(* handed the final path as --output and writes it in place; every file    *)
(* operation can fail, and the callers that swallow the failure go on.     *)
(***************************************************************************)
Absent == "absent"
Partial == "partial"
OldContent == "old"

NoBackups == [typesBackup |-> FALSE, operationsBackup |-> FALSE]

\* generate, lines 1703-1749: reading and parsing the spec, then the
\* dry-run branch, which returns before any file is touched.
GenerateBegin ==
    /\ genPc = "start"
    /\ genPc' = IF ~genIn.specOk THEN "threw"
                ELSE IF genIn.dryRun THEN "done"
                ELSE "backup"
    /\ UNCHANGED <<genIn, fs, backups, coreVars, newVars, pathVars, cmdVars, callVars, fetchVars>>

\* createBackup (470-495): copyFile of each file; a copy that fails, because
\* the file is absent or for any other reason, leaves that backup null.
CreateBackup ==
    /\ genPc = "backup"
    /\ \E t \in BOOLEAN, o \in BOOLEAN :
           /\ t => fs.types # Absent
           /\ o => fs.operations # Absent
           /\ backups' = [typesBackup |-> t, operationsBackup |-> o]
           /\ fs' = [fs EXCEPT !.typesBackup = IF t THEN fs.types ELSE Absent,
                               !.operationsBackup = IF o THEN fs.operations ELSE Absent]
    /\ genPc' = "types"
    /\ UNCHANGED <<genIn, coreVars, newVars, pathVars, cmdVars, callVars, fetchVars>>

\* generate, lines 1759-1760: --operations-only.
SkipTypes ==
    /\ genPc = "types"
    /\ genIn.skipTypes
    /\ genPc' = "operations"
    /\ UNCHANGED <<genIn, fs, backups, coreVars, newVars, pathVars, cmdVars, callVars, fetchVars>>

\* generateTypes (412-444): the process cannot be spawned, or exits with a
\* non-zero status before it writes anything.
GenerateTypesFailsEarly ==
    /\ genPc = "types"
    /\ ~genIn.skipTypes
    /\ genPc' = "restore"
    /\ UNCHANGED <<genIn, fs, backups, coreVars, newVars, pathVars, cmdVars, callVars, fetchVars>>

\* generateTypes: the process starts writing api.types.ts in place.
GenerateTypesWrites ==
    /\ genPc = "types"
    /\ ~genIn.skipTypes
    /\ fs' = [fs EXCEPT !.types = Partial]
    /\ genPc' = "typesWriting"
    /\ UNCHANGED <<genIn, backups, coreVars, newVars, pathVars, cmdVars, callVars, fetchVars>>

\* generateTypes: the process finishes the file and exits with status 0.
GenerateTypesCompletes ==
    /\ genPc = "typesWriting"
    /\ fs' = [fs EXCEPT !.types = genIn.content]
    /\ genPc' = "operations"
    /\ UNCHANGED <<genIn, backups, coreVars, newVars, pathVars, cmdVars, callVars, fetchVars>>

\* generateTypes: the process dies while writing and exits non-zero.
GenerateTypesFailsLate ==
    /\ genPc = "typesWriting"
    /\ genPc' = "restore"
    /\ UNCHANGED <<genIn, fs, backups, coreVars, newVars, pathVars, cmdVars, callVars, fetchVars>>

\* generate, lines 1766-1767: --types-only.
SkipOperations ==
    /\ genPc = "operations"
    /\ genIn.skipOperations
    /\ genPc' = "cleanup"
    /\ UNCHANGED <<genIn, fs, backups, coreVars, newVars, pathVars, cmdVars, callVars, fetchVars>>

\* atomicWrite (449-465), first half: writeFile of the temporary file.  On
\* failure the temporary file is unlinked (if that fails too it stays) and
\* the error is rethrown.
AtomicWriteTemp ==
    /\ genPc = "operations"
    /\ ~genIn.skipOperations
    /\ \/ /\ fs' = [fs EXCEPT !.temp = genIn.content]
          /\ genPc' = "rename"
       \/ /\ \E left \in {Absent, Partial} : fs' = [fs EXCEPT !.temp = left]
          /\ genPc' = "restore"
    /\ UNCHANGED <<genIn, backups, coreVars, newVars, pathVars, cmdVars, callVars, fetchVars>>

\* atomicWrite, second half: rename of the temporary file over the target.
AtomicWriteRename ==
    /\ genPc = "rename"
    /\ \/ /\ fs' = [fs EXCEPT !.operations = fs.temp, !.temp = Absent]
          /\ genPc' = "cleanup"
       \/ /\ \E left \in {Absent, fs.temp} : fs' = [fs EXCEPT !.temp = left]
          /\ genPc' = "restore"
    /\ UNCHANGED <<genIn, backups, coreVars, newVars, pathVars, cmdVars, callVars, fetchVars>>

\* cleanupBackups (527-545): unlink of each backup, failures ignored.
CleanupBackups ==
    /\ genPc = "cleanup"
    /\ \E t \in BOOLEAN, o \in BOOLEAN :
           fs' = [fs EXCEPT
                    !.typesBackup = IF backups.typesBackup /\ t THEN Absent ELSE @,
                    !.operationsBackup = IF backups.operationsBackup /\ o THEN Absent ELSE @]
    /\ genPc' = "done"
    /\ UNCHANGED <<genIn, backups, coreVars, newVars, pathVars, cmdVars, callVars, fetchVars>>

\* restoreFromBackup (500-522), first half: rename of the types backup over
\* api.types.ts when there is a backup; a failure of the rename is ignored.
RestoreTypes ==
    /\ genPc = "restore"
    /\ \/ /\ backups.typesBackup
          /\ fs' = [fs EXCEPT !.types = fs.typesBackup, !.typesBackup = Absent]
       \/ fs' = fs
    /\ genPc' = "restoreOperations"
    /\ UNCHANGED <<genIn, backups, coreVars, newVars, pathVars, cmdVars, callVars, fetchVars>>

\* restoreFromBackup, second half, then the rethrow of generate (1783).
RestoreOperations ==
    /\ genPc = "restoreOperations"
    /\ \/ /\ backups.operationsBackup
          /\ fs' = [fs EXCEPT !.operations = fs.operationsBackup,
                              !.operationsBackup = Absent]
       \/ fs' = fs
    /\ genPc' = "threw"
    /\ UNCHANGED <<genIn, backups, coreVars, newVars, pathVars, cmdVars, callVars, fetchVars>>

GenerateStep ==
    \/ GenerateBegin
    \/ CreateBackup
    \/ SkipTypes
    \/ GenerateTypesFailsEarly
    \/ GenerateTypesWrites
    \/ GenerateTypesCompletes
    \/ GenerateTypesFailsLate
    \/ SkipOperations
    \/ AtomicWriteTemp
    \/ AtomicWriteRename
    \/ CleanupBackups
    \/ RestoreTypes
    \/ RestoreOperations

\* SpecGenerate: one call of generate() on an output folder that holds
\* either file, both or none.
InitGenerate ==
    /\ \E dryRun \in BOOLEAN, skipTypes \in BOOLEAN, skipOperations \in BOOLEAN,
          specOk \in BOOLEAN, types \in {Absent, OldContent},
          ops \in {Absent, OldContent} :
           /\ genIn = [dryRun |-> dryRun, skipTypes |-> skipTypes,
                       skipOperations |-> skipOperations, specOk |-> specOk,
                       content |-> "new", types |-> types, operations |-> ops]
           /\ fs = [types |-> types, operations |-> ops, typesBackup |-> Absent,
                    operationsBackup |-> Absent, temp |-> Absent]
    /\ genPc = "start"
    /\ backups = NoBackups
    /\ CoreIdle /\ NewIdle /\ PathIdle /\ CmdIdle /\ CallIdle /\ FetchIdle

NextGenerate == GenerateStep

SpecGenerate == InitGenerate /\ [][NextGenerate]_vars

\* C19 (as claimed): when generate() fails after the backups were taken and
\* rethrows, api.types.ts and api.operations.ts are each in their
\* pre-generation state: the same content if the file existed, absent if it
\* did not.
C19_FailureRestoresPreviousFiles ==
    (genPc = "threw" /\ genIn.specOk) =>
        /\ fs.types = genIn.types
        /\ fs.operations = genIn.operations

\* C20 (as claimed): at every point of generate(), a failure or an
\* interruption between two file-system steps included, api.types.ts and
\* api.operations.ts each hold their complete previous content or their
\* complete new content.
C20_NeverPartial ==
    genPc # "idle" =>
        /\ fs.types \in {genIn.types, genIn.content}
        /\ fs.operations \in {genIn.operations, genIn.content}

(***************************************************************************)
(* The fetch command (Fetch.run) and the fetcher (fetchOpenApiSpec,        *)
(* loadLocalSpecFile, loadCacheMetadata, loadCachedSpec, saveSpec), one    *)
(* step per fetch attempt, delay and file operation.  The generation it    *)
(* ends with is the generate() of GenerateStep.                            *)
(*                                                                         *)
(* disk holds the cached spec file (a buffer or Absent), the cache         *)
(* metadata file and whether the client files exist.  A buffer is named    *)
(* by its content ("v1", "v2").                                            *)
(***************************************************************************)
DEFAULT_RETRY_CONFIG == [maxAttempts |-> 3, baseDelay |-> 1000, backoffMultiplier |-> 2]

RECURSIVE Pow(_, _)
Pow(b, e) == IF e = 0 THEN 1 ELSE b * Pow(b, e - 1)

\* The delay without backoff: the base delay after every failure.
DelayMs_Constant(retryConfig, n) ==
    retryConfig.baseDelay

\* retryConfig.baseDelay * retryConfig.backoffMultiplier ** (attempt - 1)
DelayMs(retryConfig, n) ==
    retryConfig.baseDelay * Pow(retryConfig.backoffMultiplier, n - 1)

\* A cache metadata file with the three fields of the right types.
CacheMetadata(hash, timestamp, endpoint) ==
    [t |-> "metadata", hash |-> hash, timestamp |-> timestamp, endpoint |-> endpoint]

\* A cache file that is not JSON, or lacks a field.
CorruptCache == [t |-> "corrupt"]

\* loadCacheMetadata (1890-1911): null unless the file exists, parses and
\* has a string hash, a number timestamp and a string endpoint.
loadCacheMetadata(cacheFile) ==
    IF cacheFile.t = "metadata" THEN cacheFile ELSE Null

\* A file that is not there, for the cache metadata file.
NoCacheFile == [t |-> "absent"]

\* loadCachedSpec (1927-1934): the buffer of the file; Absent stands for
\* the null it returns when the file cannot be read.
loadCachedSpec(specFile) == specFile

FetchResult(buffer, hash, hasChanged, fromCache) ==
    [buffer |-> buffer, hash |-> hash, hasChanged |-> hasChanged, fromCache |-> fromCache]

\* force || !existingCache || existingCache.hash !== hash
HasChanged(force, cache, hash) ==
    force \/ cache = Null \/ cache.hash # hash

AttemptEvent(n, ok) == [ev |-> "attempt", n |-> n, ok |-> ok, ms |-> 0]
DelayEvent(n, ms) == [ev |-> "delay", n |-> n, ok |-> FALSE, ms |-> ms]

\* The fallback that computes hasChanged as a fetched result does.
FallbackOutcome_ForceChanges(cachedSpec, cache, force) ==
    IF cachedSpec # Absent /\ cache # Null
    THEN FetchResult(cachedSpec, cache.hash, HasChanged(force, cache, cache.hash), TRUE)
    ELSE Null

\* fetchOpenApiSpec, lines 2037-2054: the cached spec when both the spec
\* file and valid metadata exist, else Null for the NetworkError thrown.
FallbackOutcome(cachedSpec, cache, force) ==
    IF cachedSpec # Absent /\ cache # Null
    THEN FetchResult(cachedSpec, cache.hash, FALSE, TRUE)
    ELSE Null

\* Fetch.run up to the call of fetchOpenApiSpec, and its first statements:
\* configuration, output folders, spec source, loadCacheMetadata.
FetchRemoteBegin ==
    /\ fetchPc = "ready"
    /\ fetchIn.source = "remote"
    /\ existingCache' = loadCacheMetadata(disk.cache)
    /\ attempt' = 1
    /\ fetchPc' = "attempt"
    /\ UNCHANGED <<fetchIn, fetchLog, fetchResult, disk, genVars,
                   coreVars, newVars, pathVars, cmdVars, callVars>>

\* loadLocalSpecFile (2125-2155) called by Fetch.run for a local source; a
\* file that is absent ends the command with SpecNotFoundError.
LoadLocalSpecFile ==
    /\ fetchPc = "ready"
    /\ fetchIn.source = "local"
    /\ existingCache' = loadCacheMetadata(disk.cache)
    /\ IF fetchIn.content = Absent
       THEN /\ fetchPc' = "failedFetch"
            /\ UNCHANGED fetchResult
       ELSE /\ fetchResult' =
                   FetchResult(fetchIn.content, computeHash(fetchIn.content),
                               HasChanged(fetchIn.force, loadCacheMetadata(disk.cache),
                                          computeHash(fetchIn.content)),
                               FALSE)
            /\ fetchPc' = "fetched"
    /\ UNCHANGED <<fetchIn, attempt, fetchLog, disk, genVars,
                   coreVars, newVars, pathVars, cmdVars, callVars>>

\* One iteration of the retry loop whose fetch answers with an ok response.
FetchAttemptSucceeds ==
    /\ fetchPc = "attempt"
    /\ attempt <= DEFAULT_RETRY_CONFIG.maxAttempts
    /\ fetchLog' = Append(fetchLog, AttemptEvent(attempt, TRUE))
    /\ fetchResult' =
           FetchResult(fetchIn.content, computeHash(fetchIn.content),
                       HasChanged(fetchIn.force, existingCache, computeHash(fetchIn.content)),
                       FALSE)
    /\ fetchPc' = "fetched"
    /\ UNCHANGED <<fetchIn, attempt, existingCache, disk, genVars,
                   coreVars, newVars, pathVars, cmdVars, callVars>>

\* One iteration whose fetch rejects or answers with a status that is not
\* ok: the catch block, up to the delay.  After the last attempt the loop
\* is left.
FetchAttemptFails ==
    /\ fetchPc = "attempt"
    /\ attempt <= DEFAULT_RETRY_CONFIG.maxAttempts
    /\ fetchLog' = Append(fetchLog, AttemptEvent(attempt, FALSE))
    /\ IF attempt < DEFAULT_RETRY_CONFIG.maxAttempts
       THEN /\ fetchPc' = "delay"
            /\ UNCHANGED attempt
       ELSE /\ fetchPc' = "exhausted"
            /\ attempt' = attempt + 1
    /\ UNCHANGED <<fetchIn, existingCache, fetchResult, disk, genVars,
                   coreVars, newVars, pathVars, cmdVars, callVars>>

\* await delay(delayMs), then attempt++.
FetchDelay ==
    /\ fetchPc = "delay"
    /\ fetchLog' = Append(fetchLog, DelayEvent(attempt, DelayMs(DEFAULT_RETRY_CONFIG, attempt)))
    /\ attempt' = attempt + 1
    /\ fetchPc' = "attempt"
    /\ UNCHANGED <<fetchIn, existingCache, fetchResult, disk, genVars,
                   coreVars, newVars, pathVars, cmdVars, callVars>>

\* All attempts failed: loadCachedSpec and the fallback, or the NetworkError
\* that ends the command.
CacheFallback ==
    /\ fetchPc = "exhausted"
    /\ LET r == FallbackOutcome(loadCachedSpec(disk.spec), existingCache, fetchIn.force)
       IN /\ fetchResult' = r
          /\ fetchPc' = IF r = Null THEN "failedFetch" ELSE "fetched"
    /\ UNCHANGED <<fetchIn, attempt, existingCache, fetchLog, disk, genVars,
                   coreVars, newVars, pathVars, cmdVars, callVars>>

\* Fetch.run, lines 714-718: nothing changed and no --force.
SkipGeneration ==
    /\ fetchPc = "fetched"
    /\ ~(fetchResult.hasChanged \/ fetchIn.force)
    /\ fetchPc' = "skipped"
    /\ UNCHANGED <<fetchIn, attempt, existingCache, fetchLog, fetchResult, disk, genVars,
                   coreVars, newVars, pathVars, cmdVars, callVars>>

\* saveSpec (2059-2080), first half: writeFile of the spec file.
SaveSpecFile ==
    /\ fetchPc = "fetched"
    /\ fetchResult.hasChanged \/ fetchIn.force
    /\ \/ /\ disk' = [disk EXCEPT !.spec = fetchResult.buffer]
          /\ fetchPc' = "saveCache"
       \/ /\ \E left \in {disk.spec, Partial} : disk' = [disk EXCEPT !.spec = left]
          /\ fetchPc' = "failedSave"
    /\ UNCHANGED <<fetchIn, attempt, existingCache, fetchLog, fetchResult, genVars,
                   coreVars, newVars, pathVars, cmdVars, callVars>>

\* saveSpec, second half: saveCacheMetadata with the hash, the time and the
\* source.
SaveCacheMetadata ==
    /\ fetchPc = "saveCache"
    /\ \/ /\ disk' = [disk EXCEPT
                        !.cache = CacheMetadata(fetchResult.hash, 1, fetchIn.source)]
          /\ fetchPc' = "saved"
       \/ /\ \E left \in {disk.cache, CorruptCache} : disk' = [disk EXCEPT !.cache = left]
          /\ fetchPc' = "failedSave"
    /\ UNCHANGED <<fetchIn, attempt, existingCache, fetchLog, fetchResult, genVars,
                   coreVars, newVars, pathVars, cmdVars, callVars>>

\* Fetch.run, lines 736-758: generateClientFiles creates the client files
\* that are missing, the flag combination is validated, generate() is
\* called.  The saved buffer may not be JSON (specOk).
StartGeneration ==
    /\ fetchPc = "saved"
    /\ disk' = [disk EXCEPT !.client = TRUE]
    /\ IF fetchIn.typesOnly /\ fetchIn.operationsOnly
       THEN /\ fetchPc' = "failedFlags"
            /\ UNCHANGED genVars
       ELSE /\ fetchPc' = "generating"
            /\ \E specOk \in BOOLEAN :
                   genIn' = [dryRun |-> fetchIn.dryRun,
                             skipTypes |-> fetchIn.operationsOnly,
                             skipOperations |-> fetchIn.typesOnly,
                             specOk |-> specOk,
                             content |-> fetchResult.buffer,
                             types |-> fs.types,
                             operations |-> fs.operations]
            /\ genPc' = "start"
            /\ UNCHANGED <<fs, backups>>
    /\ UNCHANGED <<fetchIn, attempt, existingCache, fetchLog, fetchResult,
                   coreVars, newVars, pathVars, cmdVars, callVars>>

\* generate() has returned or thrown: the report, or the catch and exit(1).
FinishGeneration ==
    /\ fetchPc = "generating"
    /\ genPc \in {"done", "threw"}
    /\ fetchPc' = IF genPc = "done" THEN "done" ELSE "failedGenerate"
    /\ UNCHANGED <<fetchIn, attempt, existingCache, fetchLog, fetchResult, disk, genVars,
                   coreVars, newVars, pathVars, cmdVars, callVars>>

FetchStep ==
    \/ FetchRemoteBegin
    \/ LoadLocalSpecFile
    \/ FetchAttemptSucceeds
    \/ FetchAttemptFails
    \/ FetchDelay
    \/ CacheFallback
    \/ SkipGeneration
    \/ SaveSpecFile
    \/ SaveCacheMetadata
    \/ StartGeneration
    \/ FinishGeneration

\* The buffers a source can deliver and the cache files a run can find.
SpecBuffers == {"v1", "v2"}

CacheFiles ==
    {NoCacheFile, CorruptCache}
        \cup {CacheMetadata(computeHash(b), 0, "remote") : b \in SpecBuffers}

InitFetch ==
    /\ \E force \in BOOLEAN, dryRun \in BOOLEAN, typesOnly \in BOOLEAN,
          operationsOnly \in BOOLEAN, source \in {"remote", "local"},
          content \in SpecBuffers \cup {Absent},
          specFile \in {Absent, "v1"}, cacheFile \in CacheFiles,
          client \in BOOLEAN, generated \in {Absent, OldContent} :
           /\ content = Absent => source = "local"
           /\ disk = [spec |-> specFile, cache |-> cacheFile, client |-> client]
           /\ fs = [types |-> generated, operations |-> generated,
                    typesBackup |-> Absent, operationsBackup |-> Absent, temp |-> Absent]
           /\ fetchIn = [force |-> force, dryRun |-> dryRun, typesOnly |-> typesOnly,
                         operationsOnly |-> operationsOnly, source |-> source,
                         content |-> content, disk |-> disk, fs |-> fs]
    /\ fetchPc = "ready"
    /\ attempt = 0
    /\ existingCache = Null
    /\ fetchLog = <<>>
    /\ fetchResult = Null
    /\ genIn = Null
    /\ genPc = "idle"
    /\ backups = NoBackups
    /\ CoreIdle /\ NewIdle /\ PathIdle /\ CmdIdle /\ CallIdle

NextFetch == FetchStep \/ GenerateStep

SpecFetch == InitFetch /\ [][NextFetch]_vars

\* The condition under which the claim has the spec saved and generation
\* run: --force, no valid cache metadata, or a fetched buffer whose hash
\* differs from the cached hash.
MustRegenerate ==
    \/ fetchIn.force
    \/ existingCache = Null
    \/ ~fetchResult.fromCache /\ existingCache.hash # computeHash(fetchResult.buffer)

SpecSaved ==
    /\ disk.spec = fetchResult.buffer
    /\ disk.cache = CacheMetadata(fetchResult.hash, 1, fetchIn.source)

GenerationRan == genPc # "idle"

\* The command is over, a spec was obtained and no write of saveSpec failed.
FetchRunOver == fetchPc \in {"skipped", "done", "failedFlags", "failedGenerate"}

\* C16 (as claimed): the fetch command saves the spec and runs generation if
\* and only if the fetched content's hash differs from the cached hash, or
\* there is no valid cache metadata, or --force is given; otherwise it
\* leaves the cached spec, the cache metadata and the generated files
\* untouched.
C16_RegenerateIffChanged ==
    FetchRunOver =>
        /\ (SpecSaved /\ GenerationRan) <=> MustRegenerate
        /\ ~MustRegenerate => (disk = fetchIn.disk /\ fs = fetchIn.fs /\ genPc = "idle")

IsAttempt(e) == e.ev = "attempt"
IsDelay(e) == e.ev = "delay"
Attempts == SelectSeq(fetchLog, IsAttempt)
Delays == SelectSeq(fetchLog, IsDelay)

\* The retry loop of fetchOpenApiSpec has been left.
LoopLeft == fetchIn.source = "remote" /\ fetchPc \notin {"ready", "attempt", "delay"}

\* C17: fetchOpenApiSpec makes at most 3 fetch attempts and stops at the
\* first that succeeds; after the k-th failed attempt, k < 3, it waits
\* 1000 * 2^(k-1) ms (1000, then 2000) before the next attempt, and after
\* the last failed attempt it does not wait.
C17_BoundedRetriesWithBackoff ==
    /\ Len(Attempts) <= 3
    /\ \A j \in 1..Len(fetchLog) :
           \* attempts and delays alternate, starting with attempt 1
           /\ (j % 2 = 1) => (fetchLog[j].ev = "attempt" /\ fetchLog[j].n = (j + 1) \div 2)
           /\ (j % 2 = 0) => (fetchLog[j].ev = "delay" /\ fetchLog[j].n = j \div 2)
           \* a delay follows a failed attempt only, and nothing follows a success
           /\ (j > 1 /\ fetchLog[j].ev = "delay") => ~fetchLog[j-1].ok
           /\ (fetchLog[j].ev = "attempt" /\ fetchLog[j].ok) => j = Len(fetchLog)
    /\ \A k \in 1..Len(Delays) :
           /\ k < 3
           /\ Delays[k].ms = (IF k = 1 THEN 1000 ELSE 2000)
    /\ LoopLeft =>
           /\ Len(Attempts) >= 1
           /\ fetchLog[Len(fetchLog)].ev = "attempt"
           /\ Attempts[Len(Attempts)].ok \/ Len(Attempts) = 3
           /\ Len(Delays) = Len(Attempts) - 1
           /\ Attempts[Len(Attempts)].ok <=> (fetchResult # Null /\ ~fetchResult.fromCache)

\* The third attempt succeeded after two failures and the two delays.
C17_Witness ==
    /\ LoopLeft
    /\ Len(Attempts) = 3
    /\ Attempts[3].ok
    /\ Len(Delays) = 2
    /\ Delays[1].ms = 1000
    /\ Delays[2].ms = 2000

\* Every attempt failed and the fallback has been decided.
AllAttemptsFailed ==
    /\ LoopLeft
    /\ fetchPc # "exhausted"
    /\ Len(Attempts) = 3
    /\ ~Attempts[3].ok

\* C18: when every fetch attempt fails, fetchOpenApiSpec returns the cached
\* spec with fromCache = true and hasChanged = false if both the cached
\* spec file and valid cache metadata exist, and throws a NetworkError
\* otherwise; a result with fromCache = true never has hasChanged = true,
\* --force included.
C18_FallbackToCache ==
    /\ AllAttemptsFailed =>
           IF fetchIn.disk.spec # Absent /\ fetchIn.disk.cache.t = "metadata"
           THEN fetchResult = [buffer |-> fetchIn.disk.spec,
                               hash |-> fetchIn.disk.cache.hash,
                               hasChanged |-> FALSE,
                               fromCache |-> TRUE]
           ELSE fetchResult = Null /\ fetchPc = "failedFetch"
    /\ (fetchResult # Null /\ fetchResult.fromCache) => ~fetchResult.hasChanged

\* Under --force every attempt failed and the cached spec was returned.
C18_Witness ==
    /\ AllAttemptsFailed
    /\ fetchIn.force
    /\ fetchResult # Null
    /\ fetchResult.fromCache
    /\ ~fetchResult.hasChanged
    /\ fetchResult.buffer = fetchIn.disk.spec

\* generate, lines 1727-1733 and 1751-1780: the two flags of the result it
\* returns.  The dry-run branch reports false for both; otherwise a file is
\* reported as generated when its step was not skipped.
GenerateResult(in) ==
    [typesGenerated |-> ~in.dryRun /\ ~in.skipTypes,
     operationsGenerated |-> ~in.dryRun /\ ~in.skipOperations]

\* The fetch command has ended, in any way.
FetchRunEnded ==
    fetchPc \in {"skipped", "done", "failedFetch", "failedSave", "failedFlags",
                 "failedGenerate"}

\* C21 (as claimed): a run of fetch with --dry-run writes no files: when it
\* has ended, the cached spec, the cache metadata, the client files,
\* api.types.ts and api.operations.ts are as they were before the run, and
\* the result of generate() reports typesGenerated = false and
\* operationsGenerated = false.
C21_DryRunWritesNothing ==
    (fetchIn.dryRun /\ FetchRunEnded) =>
        /\ disk = fetchIn.disk
        /\ fs = fetchIn.fs
        /\ fetchPc = "done" =>
               /\ ~GenerateResult(genIn).typesGenerated
               /\ ~GenerateResult(genIn).operationsGenerated

(***************************************************************************)
(* generateClientFiles (generator.ts 1570-1648): the four editable client  *)
(* files, one file per step, over several calls.  A file holds Absent, the *)
(* content the generator writes, or content the user has edited.           *)
(***************************************************************************)
MaxFileRuns == 2

ClientFileNames == {"helpers", "instance", "error", "client"}

GeneratedContent == "generated"
EditedContent == "edited"

\* The file the function turns to after file f, in the order of its code.
AfterClientFile(f) ==
    CASE f = "helpers" -> "instance"
      [] f = "instance" -> "error"
      [] f = "error" -> "client"
      [] f = "client" -> "done"

\* fileExists (generator.ts 400-407)
fileExists(files, f) == files[f] # Absent

\* The test that writes every file at every call.
ShouldWrite_Always(exists, force) ==
    TRUE

\* if (!helpersExists || force), and the same test for the other files.
ShouldWrite(exists, force) ==
    ~exists \/ force

\* One file of generateClientFiles: the existence test, then atomicWrite and
\* result.<file> = true, or the skip.  An atomicWrite that fails leaves the
\* target as it was and its error leaves generateClientFiles.
ClientFileStep ==
    /\ filesPc \in ClientFileNames
    /\ IF ShouldWrite(fileExists(clientFs, filesPc), filesIn.force)
       THEN \/ /\ clientFs' = [clientFs EXCEPT ![filesPc] = GeneratedContent]
               /\ filesOut' = [filesOut EXCEPT ![filesPc] = TRUE]
               /\ filesLog' = filesLog \cup {filesPc}
               /\ filesPc' = AfterClientFile(filesPc)
            \/ /\ filesPc' = "threw"
               /\ UNCHANGED <<clientFs, filesOut, filesLog>>
       ELSE /\ filesPc' = AfterClientFile(filesPc)
            /\ UNCHANGED <<clientFs, filesOut, filesLog>>
    /\ UNCHANGED <<filesIn, filesRuns, coreVars, midVars, butFilesVars>>

\* The next call of generateClientFiles, by a later command: the result
\* starts with every flag false.
GenerateClientFilesAgain ==
    /\ filesPc \in {"done", "threw"}
    /\ filesRuns < MaxFileRuns
    /\ \E force \in BOOLEAN : filesIn' = [force |-> force, files |-> clientFs]
    /\ filesOut' = [f \in ClientFileNames |-> FALSE]
    /\ filesLog' = {}
    /\ filesPc' = "helpers"
    /\ filesRuns' = filesRuns + 1
    /\ UNCHANGED <<clientFs, coreVars, midVars, butFilesVars>>

InitClientFiles ==
    /\ \E force \in BOOLEAN,
          files \in [ClientFileNames -> {Absent, GeneratedContent, EditedContent}] :
           /\ filesIn = [force |-> force, files |-> files]
           /\ clientFs = files
    /\ filesOut = [f \in ClientFileNames |-> FALSE]
    /\ filesLog = {}
    /\ filesPc = "helpers"
    /\ filesRuns = 1
    /\ CoreIdle /\ MidIdle /\ ButFilesIdle

NextClientFiles == ClientFileStep \/ GenerateClientFilesAgain

SpecClientFiles == InitClientFiles /\ [][NextClientFiles]_vars

\* What a call that has returned must have done.
ClientFilesReturned ==
    filesPc = "done" =>
        \A f \in ClientFileNames :
            /\ f \in filesLog <=> (filesIn.files[f] = Absent \/ filesIn.force)
            /\ filesOut[f] <=> f \in filesLog
            /\ f \notin filesLog => clientFs[f] = filesIn.files[f]

\* A step changes the content of an existing file only in a call with force.
ExistingFileKept ==
    \A f \in ClientFileNames :
        (clientFs[f] # Absent /\ clientFs'[f] # clientFs[f]) => filesIn.force

\* C22: generateClientFiles writes each of api.helpers.ts, api.instance.ts,
\* api.error.ts and api.client.ts if and only if the file does not exist or
\* force is true; with force false an existing file's content is left
\* unchanged by every step of every call, and the flag returned for a file
\* is true exactly when the file was written.
C22_GeneratedOnce ==
    /\ []ClientFilesReturned
    /\ [][ExistingFileKept]_vars

\* A second call without force has returned: it kept an edited file and
\* created a missing one.
C22_Witness ==
    /\ filesPc = "done"
    /\ filesRuns = 2
    /\ ~filesIn.force
    /\ \E f \in ClientFileNames, g \in ClientFileNames :
           /\ filesIn.files[f] = EditedContent
           /\ clientFs[f] = EditedContent
           /\ ~filesOut[f]
           /\ filesIn.files[g] = Absent
           /\ clientFs[g] = GeneratedContent
           /\ filesOut[g]

(***************************************************************************)
(* The watch command (init.ts 1748-1947): Watch.run, its shutdown handler, *)
(* Watch.runCycle and Watch.delay.  A cycle is fetchOpenApiSpec, saveSpec  *)
(* and generate(), the steps modelled above, taken without flags; the      *)
(* remote spec stays the same during a run of the command.  The shutdown   *)
(* handler arms a 100 ms timer that ends the process wherever the cycle    *)
(* is at that time.  cycleCounter only labels the log lines of a cycle: it *)
(* is counted up to MaxCycles and held there.                              *)
(***************************************************************************)
MaxCycles == 2
MaxSignals == 2

NoPending == "none"

\* What no step of the watch command touches.
watchFrame == <<coreVars, pathVars, cmdVars, callVars, butWatchVars>>

\* The options runCycle hands to fetchOpenApiSpec and generate: force
\* false, no --dry-run, no --types-only, no --operations-only.
WatchOptions(remote, d, f) ==
    [force |-> FALSE, dryRun |-> FALSE, typesOnly |-> FALSE,
     operationsOnly |-> FALSE, source |-> "remote", content |-> remote,
     disk |-> d, fs |-> f]

\* Watch.run, lines 1748-1798: configuration, output folders and
\* generateClientFiles once at startup; an error there is caught at 1834 and
\* ends the command with exit(1).  Then the handlers are installed.
WatchStartup ==
    /\ watchPc = "startup"
    /\ \/ /\ disk' = [disk EXCEPT !.client = TRUE]
          /\ watchPc' = "loop"
       \/ /\ watchPc' = "failed"
          /\ UNCHANGED disk
    /\ UNCHANGED <<isShuttingDown, cycleCounter, signals, exitTimer, pending,
                   fetchIn, fetchPc, attempt, existingCache, fetchLog, fetchResult,
                   genVars, watchFrame>>

\* while (!this.isShuttingDown) { this.cycleCounter++; await this.runCycle
\* (...) }: the loop test, and the entry of runCycle when it passes.  When
\* it fails run() returns and the process lives until the timer fires.
WatchLoop ==
    /\ watchPc = "loop"
    /\ IF isShuttingDown
       THEN /\ watchPc' = "returned"
            /\ UNCHANGED <<cycleCounter, fetchPc, attempt, existingCache, fetchLog,
                           fetchResult, genVars>>
       ELSE /\ watchPc' = "cycle"
            /\ cycleCounter' = IF cycleCounter < MaxCycles THEN cycleCounter + 1
                               ELSE cycleCounter
            /\ fetchPc' = "ready"
            /\ attempt' = 0
            /\ existingCache' = Null
            /\ fetchLog' = <<>>
            /\ fetchResult' = Null
            /\ genIn' = Null
            /\ genPc' = "idle"
            /\ backups' = NoBackups
            /\ UNCHANGED fs
    /\ UNCHANGED <<isShuttingDown, signals, exitTimer, pending, fetchIn, disk, watchFrame>>

\* runCycle, lines 1901-1904: generate({ paths, logger }) after saveSpec.
\* The saved buffer may not be JSON (specOk).
WatchGenerate ==
    /\ watchPc = "cycle"
    /\ fetchPc = "saved"
    /\ fetchPc' = "generating"
    /\ \E specOk \in BOOLEAN :
           genIn' = [dryRun |-> FALSE, skipTypes |-> FALSE, skipOperations |-> FALSE,
                     specOk |-> specOk, content |-> fetchResult.buffer,
                     types |-> fs.types, operations |-> fs.operations]
    /\ genPc' = "start"
    /\ pending' = IF pending = fetchResult.buffer THEN NoPending ELSE pending
    /\ UNCHANGED <<watchPc, isShuttingDown, cycleCounter, signals, exitTimer,
                   fetchIn, attempt, existingCache, fetchLog, fetchResult, disk,
                   fs, backups, watchFrame>>

\* The cycle is over: the early return of line 1883, the end of the try
\* block, or the catch of 1914-1923 that logs "Cycle failed, will retry next
\* interval".
CycleOver ==
    \/ fetchPc \in {"skipped", "failedFetch", "failedSave"}
    \/ fetchPc = "generating" /\ genPc \in {"done", "threw"}

\* The cycle ended in the catch block after runCycle had seen a changed spec.
CycleFailedForChangedSpec ==
    /\ fetchPc = "failedSave" \/ (fetchPc = "generating" /\ genPc = "threw")
    /\ fetchResult # Null
    /\ fetchResult.hasChanged

\* runCycle returns to the loop of run(): if (!this.isShuttingDown) await
\* this.delay(intervalMs).
WatchCycleEnd ==
    /\ watchPc = "cycle"
    /\ CycleOver
    /\ watchPc' = IF isShuttingDown THEN "loop" ELSE "delay"
    /\ fetchPc' = "idle"
    /\ pending' = IF CycleFailedForChangedSpec THEN fetchResult.buffer ELSE pending
    /\ UNCHANGED <<isShuttingDown, cycleCounter, signals, exitTimer,
                   fetchIn, attempt, existingCache, fetchLog, fetchResult, disk,
                   genVars, watchFrame>>

\* Watch.delay (1930-1947): resolved by the timer, or early by the 100 ms
\* check once isShuttingDown is set.
WatchDelay ==
    /\ watchPc = "delay"
    /\ watchPc' = "loop"
    /\ UNCHANGED <<isShuttingDown, cycleCounter, signals, exitTimer, pending,
                   fetchVars, genVars, watchFrame>>

\* The process is running with the handlers of lines 1813-1814 installed.
HandlersInstalled == watchPc \in {"loop", "cycle", "delay", "returned"}

\* SIGINT or SIGTERM: shutdown(signal).  The first call sets isShuttingDown
\* and arms the timer; a later call returns at once.
Signal ==
    /\ HandlersInstalled
    /\ signals < MaxSignals
    /\ signals' = signals + 1
    /\ IF isShuttingDown
       THEN UNCHANGED <<isShuttingDown, exitTimer>>
       ELSE /\ isShuttingDown' = TRUE
            /\ exitTimer' = TRUE
    /\ UNCHANGED <<watchPc, cycleCounter, pending, fetchVars, genVars, watchFrame>>

\* setTimeout(() => process.exit(0), 100) fires: the process ends at
\* whatever step the cycle has reached.
ProcessExit ==
    /\ exitTimer
    /\ HandlersInstalled
    /\ watchPc' = "exited"
    /\ fetchPc' = "exited"
    /\ genPc' = "exited"
    /\ exitTimer' = FALSE
    /\ UNCHANGED <<isShuttingDown, cycleCounter, signals, pending,
                   fetchIn, attempt, existingCache, fetchLog, fetchResult, disk,
                   genIn, fs, backups, watchFrame>>

\* The steps of fetchOpenApiSpec, saveSpec and generate() a cycle takes.
WatchCycleStep ==
    \/ FetchRemoteBegin
    \/ FetchAttemptSucceeds
    \/ FetchAttemptFails
    \/ FetchDelay
    \/ CacheFallback
    \/ SkipGeneration
    \/ SaveSpecFile
    \/ SaveCacheMetadata
    \/ WatchGenerate
    \/ GenerateBegin
    \/ CreateBackup
    \/ GenerateTypesFailsEarly
    \/ GenerateTypesWrites
    \/ GenerateTypesCompletes
    \/ GenerateTypesFailsLate
    \/ AtomicWriteTemp
    \/ AtomicWriteRename
    \/ CleanupBackups
    \/ RestoreTypes
    \/ RestoreOperations

\* Everything the command does by itself, the signals apart.
WatchStep ==
    \/ WatchStartup
    \/ WatchLoop
    \/ WatchCycleStep
    \/ WatchCycleEnd
    \/ WatchDelay
    \/ ProcessExit

\* The output folder the command finds: nothing cached, or the spec "v1"
\* cached with its metadata and generated by an earlier run.
InitWatch ==
    /\ \E remote \in SpecBuffers, cached \in BOOLEAN, client \in BOOLEAN,
          generated \in {Absent, OldContent} :
           /\ disk = [spec |-> IF cached THEN "v1" ELSE Absent,
                      cache |-> IF cached THEN CacheMetadata(computeHash("v1"), 0, "remote")
                                ELSE NoCacheFile,
                      client |-> client]
           /\ fs = [types |-> generated, operations |-> generated,
                    typesBackup |-> Absent, operationsBackup |-> Absent, temp |-> Absent]
           /\ fetchIn = WatchOptions(remote, disk, fs)
    /\ watchPc = "startup"
    /\ isShuttingDown = FALSE
    /\ cycleCounter = 0
    /\ signals = 0
    /\ exitTimer = FALSE
    /\ pending = NoPending
    /\ fetchPc = "idle"
    /\ attempt = 0
    /\ existingCache = Null
    /\ fetchLog = <<>>
    /\ fetchResult = Null
    /\ genIn = Null
    /\ genPc = "idle"
    /\ backups = NoBackups
    /\ CoreIdle /\ PathIdle /\ CmdIdle /\ CallIdle /\ ButWatchIdle

NextWatch == WatchStep \/ Signal

\* The command keeps running while it can; a fetch attempt, a write of
\* saveSpec succeed again and again when they are tried again and again.
\* Nothing is assumed about the signals.
WatchFairness ==
    /\ WF_vars(WatchStep)
    /\ SF_vars(FetchAttemptSucceeds)
    /\ SF_vars(SaveSpecFile /\ fetchPc' = "saveCache")
    /\ SF_vars(SaveCacheMetadata /\ fetchPc' = "saved")

SpecWatch == InitWatch /\ [][NextWatch]_vars /\ WatchFairness

\* A failure inside a cycle does not end the watch loop: the loop is left
\* only on a shutdown request, and the command fails only at startup.
LoopSurvivesFailures ==
    /\ watchPc \in {"returned", "exited"} => isShuttingDown
    /\ watchPc = "failed" => cycleCounter = 0

\* C23 (as claimed): a failure in any step of a cycle (fetch, saving the
\* spec, generation) never ends the watch loop, and after a cycle that
\* failed for a changed spec, some later cycle runs generation for that
\* spec again, while the remote spec stays the same and no shutdown is
\* requested.
C23_FailedCycleIsRetried ==
    /\ []LoopSurvivesFailures
    /\ (pending # NoPending) ~> (pending = NoPending \/ isShuttingDown)

\* The pair a next run can use: no cached spec at all, or a cached spec
\* whose metadata carries its hash.
CachePairMatches ==
    \/ disk.spec = Absent /\ disk.cache = NoCacheFile
    \/ /\ disk.spec \in SpecBuffers
       /\ disk.cache.t = "metadata"
       /\ disk.cache.hash = computeHash(disk.spec)

\* A cycle is entered only while no shutdown is requested.
NoCycleAfterShutdown ==
    (watchPc' = "cycle" /\ watchPc # "cycle") => ~isShuttingDown

\* A signal that arrives during shutdown changes nothing but the count of
\* signals.
SecondSignalIgnored ==
    (isShuttingDown /\ signals' # signals) =>
        UNCHANGED <<watchPc, isShuttingDown, cycleCounter, exitTimer, pending,
                    fetchVars, genVars>>

\* C24 (as claimed): when SIGINT or SIGTERM arrives, between cycles or in
\* the middle of a cycle, no further cycle is started, a second signal has
\* no additional effect, and the cached spec file and the cache metadata are
\* left on disk as a matching pair (metadata hash = hash of the stored spec).
C24_GracefulShutdown ==
    /\ [][NoCycleAfterShutdown]_vars
    /\ [][SecondSignalIgnored]_vars
    /\ [](watchPc = "exited" => CachePairMatches)

(***************************************************************************)
(* MapFormDataTypes (operations template, generator.ts 290-304), applied   *)
(* to one field of a multipart/form-data schema.  The type is evaluated    *)
(* by the TypeScript compiler: K extends `${string}image${string}` holds   *)
(* when the property name contains "image", character for character.       *)
(***************************************************************************)
\* s occurs in name as a run of consecutive characters.
ContainsSeq(name, s) ==
    \E i \in 0..(Len(name) - Len(s)) : SubSeq(name, i + 1, i + Len(s)) = s

\* The eight template literal patterns of lines 294-296.
FileFieldPatterns ==
    { <<"i", "m", "a", "g", "e">>,
      <<"f", "i", "l", "e">>,
      <<"a", "t", "t", "a", "c", "h", "m", "e", "n", "t">>,
      <<"u", "p", "l", "o", "a", "d">>,
      <<"d", "o", "c", "u", "m", "e", "n", "t">>,
      <<"p", "h", "o", "t", "o">>,
      <<"v", "i", "d", "e", "o">>,
      <<"m", "e", "d", "i", "a">> }

\* The match that asks the name to begin with the word.
IsFileFieldName_Prefix(name) ==
    \E p \in FileFieldPatterns : Len(name) >= Len(p) /\ SubSeq(name, 1, Len(p)) = p

\* K extends `${string}image${string}` | `${string}file${string}` | ...
IsFileFieldName(name) ==
    \E p \in FileFieldPatterns : ContainsSeq(name, p)

\* The types T[K] of the explored fields; among them T[K] extends string[]
\* holds for "string[]" only and T[K] extends string for "string" only
\* ("string | undefined" is the T[K] of an optional property `name?: string`
\* under strictNullChecks).
DeclaredTypes ==
    {"string", "string[]", "number", "number[]", "boolean", "string | undefined"}

\* The mapped type of one property K of T.
MapFormDataTypes(name, type) ==
    IF IsFileFieldName(name)
    THEN IF type = "string[]" THEN "File[]"
         ELSE IF type = "string" THEN "File | Blob"
         ELSE type
    ELSE type

\* Property names of the explored fields: an optional prefix, a word, an
\* optional suffix, in camelCase as in `profileImage`.
NamePrefixes == {<<>>, <<"m", "y">>, <<"p", "r", "o", "f", "i", "l", "e">>}

NameWords ==
    FileFieldPatterns
        \cup { <<"I", "m", "a", "g", "e">>, <<"F", "i", "l", "e">>,
               <<"P", "h", "o", "t", "o">>, <<"t", "i", "t", "l", "e">>,
               <<"n", "a", "m", "e">>, <<"T", "i", "t", "l", "e">> }

NameSuffixes == {<<>>, <<"s">>, <<"U", "r", "l">>}

FieldNames == {p \o w \o x : p \in NamePrefixes, w \in NameWords, x \in NameSuffixes}

InitFormData ==
    /\ \E name \in FieldNames, type \in DeclaredTypes :
           formIn = [name |-> name, type |-> type]
    /\ formPc = "ready"
    /\ formOut = ""
    /\ CoreIdle /\ MidIdle /\ ButFormIdle

ApplyMapFormDataTypes ==
    /\ formPc = "ready"
    /\ formOut' = MapFormDataTypes(formIn.name, formIn.type)
    /\ formPc' = "done"
    /\ UNCHANGED <<formIn, coreVars, midVars, butFormVars>>

NextFormData == ApplyMapFormDataTypes

SpecFormData == InitFormData /\ [][NextFormData]_vars

ProfileImage == <<"p", "r", "o", "f", "i", "l", "e", "I", "m", "a", "g", "e">>
Title == <<"t", "i", "t", "l", "e">>

\* The vocabulary of the file-field rule.
FileVocabulary ==
    { <<"i", "m", "a", "g", "e">>, <<"f", "i", "l", "e">>,
      <<"a", "t", "t", "a", "c", "h", "m", "e", "n", "t">>,
      <<"u", "p", "l", "o", "a", "d">>, <<"d", "o", "c", "u", "m", "e", "n", "t">>,
      <<"p", "h", "o", "t", "o">>, <<"v", "i", "d", "e", "o">>,
      <<"m", "e", "d", "i", "a">> }

\* The name has one of the words of the vocabulary as a substring: the
\* characters of the word stand at consecutive positions of the name.
NamesFileUpload(name) ==
    \E w \in FileVocabulary :
        \E at \in 1..Len(name) :
            \A j \in 1..Len(w) : at + j - 1 <= Len(name) /\ name[at + j - 1] = w[j]

NotGiven == <<>>

ProjectRoot == <<"/", "p">>

\* path.isAbsolute
isAbsolute(p) == Len(p) > 0 /\ p[1] = "/"

\* path.isAbsolute(p) ? p : path.join(projectRoot, p)
ResolvePath(projectRoot, p) ==
    IF isAbsolute(p) THEN p ELSE projectRoot \o <<"/">> \o p

LocalSource(p) == [type |-> "local", path |-> p, endpoint |-> NotGiven]
RemoteSource(e) == [type |-> "remote", path |-> NotGiven, endpoint |-> e]

\* The spec already in the cache: what generate reads when it is given no
\* --spec-file.
CachedSource == [type |-> "cached", path |-> NotGiven, endpoint |-> NotGiven]

\* resolveSpecSource: flag > config spec_file > config api_endpoint.
resolveSpecSource(config, projectRoot, flagSpecFile) ==
    IF flagSpecFile # NotGiven
    THEN LocalSource(ResolvePath(projectRoot, flagSpecFile))
    ELSE IF config.spec_file # NotGiven
    THEN LocalSource(ResolvePath(projectRoot, config.spec_file))
    ELSE RemoteSource(config.api_endpoint)

\* Fetch.run, lines 671-676: --endpoint, else resolveSpecSource.
FetchSource(in) ==
    IF in.endpointFlag # NotGiven
    THEN RemoteSource(in.endpointFlag)
    ELSE resolveSpecSource(in.config, ProjectRoot, in.specFileFlag)

\* Generate.run (part_005 133-165): with --spec-file the resolved source,
\* which is copied to the cache when it is local; else the cached spec.
GenerateSource(in) ==
    IF in.specFileFlag # NotGiven
    THEN resolveSpecSource(in.config, ProjectRoot, in.specFileFlag)
    ELSE CachedSource

\* Watch.run, line 1792, and runCycle: const endpoint = config.api_endpoint.
\* The command has no --spec-file flag.
WatchSource(in) == RemoteSource(in.config.api_endpoint)

CommandSource(in) ==
    CASE in.command = "fetch" -> FetchSource(in)
      [] in.command = "generate" -> GenerateSource(in)
      [] in.command = "watch" -> WatchSource(in)

SpecFilePaths == {<<"a">>, <<"/", "a">>, <<"b">>, <<"/", "b">>}
Endpoints == {<<"h", "1">>, <<"h", "2">>}

\* loadConfig leaves spec_file undefined or a non-empty string and
\* api_endpoint a non-empty string; watch has neither --spec-file nor
\* --endpoint, generate has no --endpoint.
InitSource ==
    /\ \E command \in {"fetch", "generate", "watch"},
          specFileFlag \in SpecFilePaths \cup {NotGiven},
          endpointFlag \in Endpoints \cup {NotGiven},
          spec_file \in SpecFilePaths \cup {NotGiven},
          api_endpoint \in Endpoints :
           /\ command = "watch" => specFileFlag = NotGiven
           /\ command # "fetch" => endpointFlag = NotGiven
           /\ srcIn = [command |-> command, specFileFlag |-> specFileFlag,
                       endpointFlag |-> endpointFlag,
                       config |-> [spec_file |-> spec_file, api_endpoint |-> api_endpoint]]
    /\ srcPc = "ready"
    /\ srcOut = Null
    /\ CoreIdle /\ MidIdle /\ ButSrcIdle

ResolveSource ==
    /\ srcPc = "ready"
    /\ srcOut' = CommandSource(srcIn)
    /\ srcPc' = "done"
    /\ UNCHANGED <<srcIn, coreVars, midVars, butSrcVars>>

NextSource == ResolveSource

SpecSource == InitSource /\ [][NextSource]_vars

\* The command takes the spec from the configured api_endpoint.
UsesApiEndpoint ==
    /\ srcOut.type = "remote"
    /\ srcIn.endpointFlag = NotGiven
    /\ srcOut.endpoint = srcIn.config.api_endpoint

\* C26 (as claimed): in fetch, generate and watch the spec source follows
\* the priority spec-file flag > config spec_file > config api_endpoint:
\* the remote api_endpoint is used only when neither a spec-file flag nor a
\* config spec_file is set, and a config spec_file overrides api_endpoint.
C26_SourcePriority ==
    srcPc = "done" =>
        /\ UsesApiEndpoint =>
               (srcIn.specFileFlag = NotGiven /\ srcIn.config.spec_file = NotGiven)
        /\ srcIn.specFileFlag # NotGiven /\ srcIn.endpointFlag = NotGiven =>
               srcOut = LocalSource(ResolvePath(ProjectRoot, srcIn.specFileFlag))

(***************************************************************************)
(* Successive runs of the fetch command on one output folder (Fetch.run,   *)
(* config.ts 639-808), each with its own flags and with whatever the       *)
(* source delivers at that time.  The first run finds an empty folder.  A  *)
(* watch cycle takes the steps of a run without flags on a remote source.  *)
(***************************************************************************)
MaxRuns == 2

\* The next invocation of the command, on the disk the last one left.
NextRun ==
    /\ FetchRunEnded
    /\ runs < MaxRuns
    /\ runs' = runs + 1
    /\ \E force \in BOOLEAN, dryRun \in BOOLEAN, typesOnly \in BOOLEAN,
          operationsOnly \in BOOLEAN, source \in {"remote", "local"},
          content \in SpecBuffers \cup {Absent} :
           /\ content = Absent => source = "local"
           /\ fetchIn' = [force |-> force, dryRun |-> dryRun, typesOnly |-> typesOnly,
                          operationsOnly |-> operationsOnly, source |-> source,
                          content |-> content, disk |-> disk, fs |-> fs]
    /\ fetchPc' = "ready"
    /\ attempt' = 0
    /\ existingCache' = Null
    /\ fetchLog' = <<>>
    /\ fetchResult' = Null
    /\ genIn' = Null
    /\ genPc' = "idle"
    /\ backups' = NoBackups
    /\ UNCHANGED <<disk, fs, coreVars, pathVars, cmdVars, callVars, butRunVars>>

InitRuns ==
    /\ \E force \in BOOLEAN, dryRun \in BOOLEAN, typesOnly \in BOOLEAN,
          operationsOnly \in BOOLEAN, source \in {"remote", "local"},
          content \in SpecBuffers \cup {Absent} :
           /\ content = Absent => source = "local"
           /\ disk = [spec |-> Absent, cache |-> NoCacheFile, client |-> FALSE]
           /\ fs = [types |-> Absent, operations |-> Absent,
                    typesBackup |-> Absent, operationsBackup |-> Absent, temp |-> Absent]
           /\ fetchIn = [force |-> force, dryRun |-> dryRun, typesOnly |-> typesOnly,
                         operationsOnly |-> operationsOnly, source |-> source,
                         content |-> content, disk |-> disk, fs |-> fs]
    /\ runs = 1
    /\ fetchPc = "ready"
    /\ attempt = 0
    /\ existingCache = Null
    /\ fetchLog = <<>>
    /\ fetchResult = Null
    /\ genIn = Null
    /\ genPc = "idle"
    /\ backups = NoBackups
    /\ CoreIdle /\ PathIdle /\ CmdIdle /\ CallIdle /\ ButRunIdle

NextRuns == FetchStep \/ GenerateStep \/ NextRun

SpecRuns == InitRuns /\ [][NextRuns]_vars

\* A plain fetch of the spec b, or a watch cycle that fetches it, would find
\* it unchanged and skip generation.
WouldSkip(b) ==
    /\ disk.cache.t = "metadata"
    /\ disk.cache.hash = computeHash(b)

\* C27 (as claimed): after any sequence of runs, whenever the cache metadata
\* hash equals the hash of the current source spec, so that a plain fetch or
\* a watch cycle skips generation, api.operations.ts on disk is the
\* rendering of that same spec.
C27_CacheConsistency ==
    FetchRunEnded =>
        \A b \in SpecBuffers : WouldSkip(b) => fs.operations = b

(***************************************************************************)
(* The two operation extractors on one document: Diff.extractOperations    *)
(* (diff command 243-280) and parseOperations (generator.ts 182-244).      *)
(***************************************************************************)
InitExtractors ==
    /\ IsSpecValue(eqIn)
    /\ eqPc = "ready"
    /\ eqOut = Null
    /\ CoreIdle /\ MidIdle /\ ButEqIdle

RunExtractors ==
    /\ eqPc = "ready"
    /\ eqOut' = [diff |-> extractOperations(eqIn), generator |-> parseOperations(eqIn)]
    /\ eqPc' = "done"
    /\ UNCHANGED <<eqIn, coreVars, midVars, butEqVars>>

NextExtractors == RunExtractors

SpecExtractors == InitExtractors /\ [][NextExtractors]_vars

\* The operationIds of the generator's descriptors, as JSON strings.
DescriptorIds(descriptors) ==
    {Str(descriptors[i].operationId) : i \in 1..Len(descriptors)}

\* The last descriptor that carries the operationId id.
LastDescriptor(descriptors, id) ==
    LET last == CHOOSE i \in 1..Len(descriptors) :
                    /\ Str(descriptors[i].operationId) = id
                    /\ \A j \in (i+1)..Len(descriptors) :
                           Str(descriptors[j].operationId) # id
    IN descriptors[last]

\* C28 (as claimed): for every spec, the operationIds Diff.extractOperations
\* produces are those of the descriptors parseOperations produces, and for
\* each id the diff entry's method, path, hasRequestBody and summary equal
\* those of the last parseOperations descriptor carrying that id.
C28_DiffSeesGeneratedOperations ==
    eqPc = "done" =>
        /\ eqOut.diff.error = eqOut.generator.error
        /\ eqOut.diff.error = "none" /\ eqOut.generator.error = "none" =>
               /\ MapKeys(eqOut.diff.value) = DescriptorIds(eqOut.generator.value)
               /\ \A id \in MapKeys(eqOut.diff.value) \cap DescriptorIds(eqOut.generator.value) :
                      LET d == MapGet(eqOut.diff.value, id)
                          g == LastDescriptor(eqOut.generator.value, id)
                      IN /\ d.method = g.method
                         /\ d.path = g.path
                         /\ d.hasRequestBody = g.hasRequestBody
                         /\ d.summary = g.summary

(***************************************************************************)
(* A call of a generated operation function with a pathParams record of    *)
(* its generated type: the keys are those of generatePathParamsType        *)
(* (generator.ts 75-82), the record goes unchanged through the rendered    *)
(* call (153-171) and the client method to interpolatePath (1324-1348).    *)
(***************************************************************************)
\* A record with exactly the keys of the generated type, every value v.
PathParamsOfType(type, v) ==
    Obj([i \in 1..Len(type.fields) |-> <<type.fields[i].name, v>>])

InitKeys ==
    /\ \E n \in 1..MaxPlaceholders :
           \E names \in [1..n -> PlaceholderNames] :
               \E literals \in [1..(n+1) -> PathLiterals] :
                   \E v \in {Num(7), Str(<<"x">>)} :
                       keyIn = [template |-> BuildTemplate(literals, names, 1),
                                value |-> v]
    /\ keyPc = "ready"
    /\ keyOut = Null
    /\ CoreIdle /\ MidIdle /\ ButKeyIdle

\* parseOperations took pathParams from the template, the generated
\* function is typed with generatePathParamsType(pathParams), and the call
\* apiClient.<method>(path, pathParams, config) interpolates the template.
CallGeneratedOperation ==
    /\ keyPc = "ready"
    /\ LET pathParams == extractPathParams(keyIn.template)
           record == PathParamsOfType(generatePathParamsType(pathParams), keyIn.value)
       IN keyOut' = [pathParams |-> record,
                     url |-> interpolatePath(keyIn.template, record)]
    /\ keyPc' = "done"
    /\ UNCHANGED <<keyIn, coreVars, midVars, butKeyVars>>

NextKeys == CallGeneratedOperation

SpecKeys == InitKeys /\ [][NextKeys]_vars

\* C29 (as claimed): for every operation whose path template has
\* placeholders, calling the generated function with a pathParams record
\* that has exactly the keys of its generated type and defined values makes
\* interpolatePath substitute every {name} placeholder and report no
\* missing parameter.
C29_KeysAgree ==
    keyPc = "done" =>
        /\ keyOut.url.error = "none"
        /\ ~ContainsSeq(keyOut.url.value, <<"{">>)

\* The parameters the rendered signature declares, and the identifiers the
\* rendered call passes after the path literal.
DeclaredParams == {rendered.params[i].name : i \in 1..Len(rendered.params)}
MentionedArgs == {rendered.apiCall.args[i] : i \in 1..Len(rendered.apiCall.args)}

\* C30: every rendered operation function is self-contained: the rendered
\* call mentions data only if the signature declares a data parameter,
\* mentions pathParams only if the signature declares a pathParams
\* parameter, and every parameter the signature declares is passed on in
\* the call.
C30_SelfContained ==
    renderPc = "done" =>
        /\ "data" \in MentionedArgs => "data" \in DeclaredParams
        /\ "pathParams" \in MentionedArgs => "pathParams" \in DeclaredParams
        /\ DeclaredParams \subseteq MentionedArgs

\* A PATCH without a request body and with path parameters has been
\* rendered: the call passes undefined, pathParams and config.
C30_Witness ==
    /\ renderPc = "done"
    /\ operation.method = "patch"
    /\ ~operation.hasRequestBody
    /\ DeclaredParams = {"pathParams", "config"}
    /\ rendered.apiCall.args = <<"undefined", "pathParams", "config">>

====
